---- MODULE Spec2Model ----
(***************************************************************************)
(* FinTrack (arofre/FinTrack): the SQLite ledger store (portfolio, prices, *)
(* cash), the three builders of src/src/FinTrack/parsing_tools.py, the     *)
(* point-in-time lookups and the valuation/return queries of               *)
(* src/src/FinTrack/portfolio.py.                                          *)
(*                                                                         *)
(* Dates are day numbers (the ISO date strings the code compares order the *)
(* same way).  Python floats are modelled as exact rationals <<n, d>> with *)
(* d > 0 in lowest terms, so rounding is not modelled.                     *)
(***************************************************************************)
EXTENDS Integers, Sequences, FiniteSets, TLC

\* ------------------------------------------------------------------ bounds

\* Largest number of rows the transaction CSV grows to.
MaxLog == 2
\* Last calendar day "today" advances to in the general specifications.
MaxDay == 2

\* ---------------------------------------------------------------- rationals

Abs(x) == IF x < 0 THEN -x ELSE x

RECURSIVE GCD(_, _)
GCD(a, b) == IF b = 0 THEN a ELSE GCD(b, a % b)

\* n/d in lowest terms, d > 0.
Norm(n, d) ==
    LET g == GCD(Abs(n), d)
    IN  IF n = 0 THEN <<0, 1>> ELSE <<(Abs(n) \div g) * (IF n < 0 THEN -1 ELSE 1), d \div g>>

R(i) == <<i, 1>>
RAdd(a, b) == Norm(a[1] * b[2] + b[1] * a[2], a[2] * b[2])
RNeg(a) == <<-a[1], a[2]>>
RSub(a, b) == RAdd(a, RNeg(b))
RMul(a, b) == Norm(a[1] * b[1], a[2] * b[2])
RAbs(a) == <<Abs(a[1]), a[2]>>
\* a / b for b # 0.
RDiv(a, b) ==
    IF b[1] > 0 THEN Norm(a[1] * b[2], a[2] * b[1])
    ELSE Norm(-(a[1] * b[2]), a[2] * (-b[1]))
RLt(a, b) == a[1] * b[2] < b[1] * a[2]
RZero == R(0)

\* ------------------------------------------------------------- small helpers


Max(S) == CHOOSE x \in S : \A y \in S : y <= x
Min(S) == CHOOSE x \in S : \A y \in S : x <= y

\* The elements of a finite set of integers in ascending order (Python's sorted()).
RECURSIVE sorted(_)
sorted(S) == IF S = {} THEN <<>> ELSE <<Min(S)>> \o sorted(S \ {Min(S)})

\* Sum of f[i] over the indices of a sequence of integers.
RECURSIVE SumSeq(_)
SumSeq(s) == IF s = <<>> THEN 0 ELSE Head(s) + SumSeq(Tail(s))

\* Sum of a sequence of rationals.
RECURSIVE RSumSeq(_)
RSumSeq(s) == IF s = <<>> THEN RZero ELSE RAdd(Head(s), RSumSeq(Tail(s)))


\* ---------------------------------------------------------------- the world

\* The instruments, in the order sorted() gives the columns of the portfolio table.
TickerSeq == <<"X", "Y">>
Tickers == {"X", "Y"}
\* The four transaction kinds the builders handle (parsing_tools.py:76-81, 455-476).
Types == {"Buy", "Sell", "Short", "Cover"}

VARIABLES
    env,        \* what the process does not control: the rows the user may write to the
                \* CSV, the last day considered, the arguments callers pass, the Yahoo feed
    log,        \* the transaction CSV: a sequence of rows [Date, Ticker, Type, Amount, Price]
    today,      \* datetime.today().date()
    db,         \* portfolio.db: [tables, portfolio, prices, cash]
    obj,        \* the FinTrack object: [exists, initial_cash, currency]
    pc,         \* position inside FinTrack.__init__ / update_portfolio: "idle" or the
                \* builder that runs next
    call,       \* the running FinTrack call: [kind, initial_cash, currency, done]
    err,        \* exception the latest finished call raised, outermost first; <<>> if none
    cashRun     \* what the latest build_cash_table run did (its local variables)

vars == <<env, log, today, db, obj, pc, call, err, cashRun>>

\* A CSV row.  Price is <<>> for an empty cell (NaN) and <<p>> otherwise.  unparsed
\* names the cells among Date, Amount and Price whose text is neither a date nor a
\* number (the value of such a field is then without meaning), and half says that the
\* Amount cell reads Amount + 0.5.
Row(d, t, ty, n, p) ==
    [Date |-> d, Ticker |-> t, Type |-> ty, Amount |-> n, Price |-> p,
     unparsed |-> {}, half |-> FALSE]

REQUIRED_COLUMNS == {"Date", "Ticker", "Type", "Amount", "Price"}

\* The path of the transaction file, and the files on disk: a file is [columns, rows],
\* the header line and the rows under it, each row read with the columns of the header.
CsvFile == "transactions.csv"
read_row(columns, r) == [c \in (DOMAIN r) \ (REQUIRED_COLUMNS \ columns) |-> r[c]]
files(e, rows) ==
    [p \in e.files |->
        [columns |-> e.columns, rows |-> [i \in DOMAIN rows |-> read_row(e.columns, rows[i])]]]

\* An Optional[float]: <<>> is None.
None == <<>>
Some(x) == <<x>>

\* The store before any table is created.  portfolio is [cols, rows]: the ticker
\* columns and the snapshot rows [Date, H] in stored order; prices is a function
\* <<Ticker, Date>> -> Price_SEK (PRIMARY KEY (Date, Ticker)); cash is a function
\* Date -> Cash_Balance (Date TEXT PRIMARY KEY).
EmptyDb ==
    [tables |-> {}, portfolio |-> [cols |-> {}, rows |-> <<>>], prices |-> <<>>, cash |-> <<>>]

\* ------------------------------------------------------------ the Yahoo feed

\* yf.download(ticker, start, end + 1)["Close"]: the days of [from, to] the feed has a
\* close for.  The feed holds nothing dated after today.
feed_close_days(e, now, ticker, from, to) ==
    {d \in from..to : d <= now /\ d \in DOMAIN e.close[ticker] /\ e.close[ticker][d] # 0}

\* get_dividends(from_date, to_date, ticker): the dividend days in [from, to].
get_dividends(e, now, from, to, ticker) ==
    {d \in from..to : d <= now /\ d \in DOMAIN e.div[ticker] /\ e.div[ticker][d] # 0}

\* get_currency_from_ticker raises DataFetchError when the feed names no currency.
currency_raises(e, ticker) == e.ccy[ticker] = ""
get_currency_from_ticker(e, ticker) == e.ccy[ticker]

\* get_exchange_rate(from_date, to_date, ...): raises DataFetchError when the feed has
\* no rate in the range; otherwise a daily series over [from, to], forward- then
\* backward-filled.
fx_days(e, now, from, to) ==
    {d \in from..to : d <= now /\ d \in DOMAIN e.fx /\ e.fx[d] # 0}
exchange_rate_raises(e, now, from, to) == fx_days(e, now, from, to) = {}
get_exchange_rate(e, now, from, to) ==
    LET have == fx_days(e, now, from, to)
    IN  [d \in from..to |->
            IF \E h \in have : h <= d
            THEN R(e.fx[Max({h \in have : h <= d})])
            ELSE R(e.fx[Min(have)])]

\* --------------------------------------------------------------- validation

VALID_TYPES == {"Buy", "Sell"}

\* str.strip() on the ticker cells of the model: a cell of blanks strips to nothing.
strip(s) == IF s = " " THEN "" ELSE s

\* validate_row without its checks of the Price cell.
validate_row_any_price(row) ==
    (IF "Date" \notin DOMAIN row THEN {"Missing Date column"}
     ELSE IF "Date" \in row.unparsed THEN {"Invalid date format"} ELSE {})
    \cup (IF "Ticker" \notin DOMAIN row THEN {"Missing Ticker column"}
          ELSE IF strip(row.Ticker) = "" THEN {"Invalid ticker: empty or null"} ELSE {})
    \cup (IF "Type" \notin DOMAIN row THEN {"Missing Type column"}
          ELSE IF row.Type \notin VALID_TYPES THEN {"Type must be 'Buy' or 'Sell'"} ELSE {})
    \cup (IF "Amount" \notin DOMAIN row THEN {"Missing Amount column"}
          ELSE IF "Amount" \in row.unparsed THEN {"Invalid amount"}
          ELSE IF (IF row.half THEN row.Amount < 0 ELSE row.Amount <= 0)
               THEN {"Amount must be positive"}
          ELSE IF row.half THEN {"Amount must be a positive integer"} ELSE {})

\* TransactionValidator.validate_row: the error messages of one row.  float(NaN) is
\* neither < 0 nor == 0, so an empty Price cell passes.
validate_row(row) ==
    (IF "Date" \notin DOMAIN row THEN {"Missing Date column"}
     ELSE IF "Date" \in row.unparsed THEN {"Invalid date format"} ELSE {})
    \cup (IF "Ticker" \notin DOMAIN row THEN {"Missing Ticker column"}
          ELSE IF strip(row.Ticker) = "" THEN {"Invalid ticker: empty or null"} ELSE {})
    \cup (IF "Type" \notin DOMAIN row THEN {"Missing Type column"}
          ELSE IF row.Type \notin VALID_TYPES THEN {"Type must be 'Buy' or 'Sell'"} ELSE {})
    \cup (IF "Amount" \notin DOMAIN row THEN {"Missing Amount column"}
          ELSE IF "Amount" \in row.unparsed THEN {"Invalid amount"}
          ELSE IF (IF row.half THEN row.Amount < 0 ELSE row.Amount <= 0)
               THEN {"Amount must be positive"}
          ELSE IF row.half THEN {"Amount must be a positive integer"} ELSE {})
    \cup (IF "Price" \notin DOMAIN row THEN {"Missing Price column"}
          ELSE IF "Price" \in row.unparsed THEN {"Invalid price"}
          ELSE IF row.Price # <<>> /\ row.Price[1] < 0 THEN {"Price cannot be negative"}
          ELSE IF row.Price # <<>> /\ row.Price[1] = 0 THEN {"Price cannot be zero"} ELSE {})

\* TransactionValidator.validate_dataframe: <<is_valid, errors>>; the error of the
\* row at 0-based index idx is reported as "Row idx + 2" (the header is line 1), and
\* the error about the header as line 1.
validate_dataframe(df) ==
    LET missing_cols == REQUIRED_COLUMNS \ df.columns
        errors == UNION {{<<i + 1, m>> : m \in validate_row(df.rows[i])} : i \in DOMAIN df.rows}
    IN  IF missing_cols # {}
        THEN <<FALSE, {<<1, "Missing required columns">>}>>
        ELSE <<errors = {}, errors>>

\* ------------------------------------------------------ point-in-time lookups

\* get_portfolio raises DatabaseError when the table is missing.
get_portfolio_raises(d) == "portfolio" \notin d.tables

\* get_portfolio: SELECT * FROM portfolio WHERE DATE(Date) <= ? ORDER BY Date DESC
\* LIMIT 1, then the columns whose share count is not 0.  The result is a function
\* ticker -> shares; the empty function is {}.
get_portfolio(d, target_date) ==
    LET rows == d.portfolio.rows
        hit == {i \in DOMAIN rows : rows[i].Date <= target_date}
    IN  IF hit = {} THEN <<>>
        ELSE LET i == CHOOSE i \in hit : \A j \in hit : rows[j].Date <= rows[i].Date
                 row == rows[i].H
             IN  [t \in {c \in d.portfolio.cols : row[c] # 0} |-> row[t]]

\* get_cash_balance with "Date < ?" in place of "Date <= ?".
get_cash_balance_before(d, target_date) ==
    LET hit == {k \in DOMAIN d.cash : k < target_date}
    IN  IF hit = {} THEN <<>> ELSE <<d.cash[CHOOSE k \in hit : \A j \in hit : j <= k]>>

\* get_cash_balance: SELECT Cash_Balance FROM cash WHERE Date <= ? ORDER BY Date DESC
\* LIMIT 1; None when no row matches.
get_cash_balance(d, target_date) ==
    LET hit == {k \in DOMAIN d.cash : k <= target_date}
    IN  IF hit = {} THEN None ELSE Some(d.cash[Max(hit)])

\* get_price: SELECT Price_SEK FROM prices WHERE Ticker = ? AND Date <= ? ORDER BY
\* Date DESC LIMIT 1; None when no row matches.
get_price(d, ticker, target_date) ==
    LET hit == {k \in DOMAIN d.prices : k[1] = ticker /\ k[2] <= target_date}
    IN  IF hit = {} THEN None
        ELSE Some(d.prices[<<ticker, Max({k[2] : k \in hit})>>])

\* ----------------------------------------------------------- holdings builder

\* ['Amount'].sum() over the rows of df of the given kinds.
SumAmount(df, kinds) ==
    LET sel == SelectSeq(df, LAMBDA r : r.Type \in kinds)
    IN  SumSeq([i \in DOMAIN sel |-> sel[i].Amount])

\* holding_cell with the sales left out of the count.
holding_cell_buys_only(df, ticker, date_val) ==
    LET transactions == SelectSeq(df, LAMBDA r : r.Ticker = ticker /\ r.Date <= date_val)
    IN  SumAmount(transactions, {"Buy", "Cover"})

\* The share count build_holding_table stores for ticker at date_val (lines 71-89):
\* None when there is no transaction or the count is 0, then fillna(0).
holding_cell(df, ticker, date_val) ==
    LET transactions == SelectSeq(df, LAMBDA r : r.Ticker = ticker /\ r.Date <= date_val)
        inflows == SumAmount(transactions, {"Buy", "Cover"})
        outflows == SumAmount(transactions, {"Sell", "Short"})
        holdings == inflows - outflows
    IN  IF Len(transactions) > 0
        THEN (IF holdings # 0 THEN holdings ELSE 0)
        ELSE 0

\* build_holding_table(csv_file): [raises, db].  A missing file raises
\* FileNotFoundError ahead of the try block; inside it, pd.to_datetime(df["Date"])
\* raises KeyError without a Date column and ValueError on a cell that is no date, and
\* the handler of Exception turns both into DatabaseError; a log the validator rejects
\* raises ValidationError.  All of these leave the store as it was.  Otherwise the
\* portfolio table is dropped and written anew, one row per distinct date in
\* ascending order, one column per ticker of the log.  On a file of the header alone
\* portfolio_data is empty and the frame has no column: the table is dropped, the
\* CREATE TABLE of to_sql has nothing between its brackets, SQLite rejects it, and the
\* handler of Exception raises DatabaseError.
build_holding_table(d, fs, csv_file) ==
    IF csv_file \notin DOMAIN fs
    THEN [raises |-> <<"FileNotFoundError">>, db |-> d]
    ELSE IF "Date" \notin fs[csv_file].columns
            \/ \E i \in DOMAIN fs[csv_file].rows : "Date" \in fs[csv_file].rows[i].unparsed
    THEN [raises |-> <<"DatabaseError">>, db |-> d]
    ELSE IF ~validate_dataframe(fs[csv_file])[1]
    THEN [raises |-> <<"ValidationError">>, db |-> d]
    ELSE IF fs[csv_file].rows = <<>>
    THEN [raises |-> <<"DatabaseError">>,
          db |-> [d EXCEPT !.tables = @ \ {"portfolio"},
                           !.portfolio = [cols |-> {}, rows |-> <<>>]]]
    ELSE LET df == fs[csv_file].rows
             all_dates == sorted({df[i].Date : i \in DOMAIN df})
             all_tickers == {df[i].Ticker : i \in DOMAIN df}
             portfolio_data ==
                 [k \in DOMAIN all_dates |->
                     [Date |-> all_dates[k],
                      H |-> [t \in all_tickers |-> holding_cell(df, t, all_dates[k])]]]
         IN  [raises |-> <<>>,
              db |-> [d EXCEPT !.tables = @ \cup {"portfolio"},
                               !.portfolio = [cols |-> all_tickers, rows |-> portfolio_data]]]

\* -------------------------------------------------------------- price builder

\* INSERT OR REPLACE INTO prices / cash: the row of the key is written.
insert_or_replace(table, key, value) ==
    [k \in DOMAIN table \cup {key} |-> IF k = key THEN value ELSE table[k]]

\* The rows _get_specified_prices keeps: Price not NaN, not "" and not 0.
has_price(r) == r.Price # <<>> /\ r.Price[1] # 0

\* _get_specified_prices: for a ticker and a date with priced rows, the amount-weighted
\* average price of those rows.
weighted_price(df, ticker, date_val) ==
    LET date_transactions ==
            SelectSeq(df, LAMBDA r : has_price(r) /\ r.Ticker = ticker /\ r.Date = date_val)
        total_shares == SumSeq([i \in DOMAIN date_transactions |-> date_transactions[i].Amount])
        value == SumSeq([i \in DOMAIN date_transactions |->
                            date_transactions[i].Amount * date_transactions[i].Price[1]])
    IN  RDiv(R(value), R(total_shares))

\* The keys of specified_prices[ticker] in dict order: the priced dates of the ticker in
\* order of first appearance in the file.
RECURSIVE unique_dates(_, _)
unique_dates(rows, seen) ==
    IF rows = <<>> THEN <<>>
    ELSE IF Head(rows).Date \in seen THEN unique_dates(Tail(rows), seen)
    ELSE <<Head(rows).Date>> \o unique_dates(Tail(rows), seen \cup {Head(rows).Date})

spec_dates(df, ticker) ==
    unique_dates(SelectSeq(df, LAMBDA r : has_price(r) /\ r.Ticker = ticker), {})

\* _fill_prices_forward: from start_date on, stop at the first day that has a price
\* for the ticker, else insert price_sek and go on to end_date.
RECURSIVE _fill_prices_forward(_, _, _, _, _)
_fill_prices_forward(table, ticker, price_sek, current_date, end_date) ==
    IF current_date > end_date THEN table
    ELSE IF <<ticker, current_date>> \in DOMAIN table THEN table
    ELSE _fill_prices_forward(insert_or_replace(table, <<ticker, current_date>>, price_sek),
                              ticker, price_sek, current_date + 1, end_date)

\* generate_price_table lines 674-707: the specified prices of one ticker, in dict
\* order.  An exception (no exchange rate for the day) ends the loop for the ticker;
\* what was inserted before stays.
RECURSIVE specified_loop(_, _, _, _, _, _, _, _)
specified_loop(table, e, now, df, ticker, currency, portfolio_currency, dates) ==
    IF dates = <<>> THEN table
    ELSE LET spec_date == Head(dates)
             spec_price_original == weighted_price(df, ticker, spec_date)
         IN  IF currency # portfolio_currency /\ exchange_rate_raises(e, now, spec_date, spec_date)
             THEN table
             ELSE LET spec_price_sek ==
                          IF currency # portfolio_currency
                          THEN RMul(spec_price_original,
                                    get_exchange_rate(e, now, spec_date, spec_date)[spec_date])
                          ELSE spec_price_original
                      inserted == insert_or_replace(table, <<ticker, spec_date>>, spec_price_sek)
                      filled == _fill_prices_forward(inserted, ticker, spec_price_sek,
                                                     spec_date, spec_date + 1)
                  IN  specified_loop(filled, e, now, df, ticker, currency,
                                     portfolio_currency, Tail(dates))

specified_prices_step(table, e, now, df, ticker, portfolio_currency) ==
    IF spec_dates(df, ticker) = <<>> \/ currency_raises(e, ticker) THEN table
    ELSE specified_loop(table, e, now, df, ticker, get_currency_from_ticker(e, ticker),
                        portfolio_currency, spec_dates(df, ticker))

\* generate_price_table lines 709-726: one period per snapshot row with a non-zero
\* count, from the row's date (not before start_date) to the day the next row starts
\* (not after end_date).
ownership_periods(rows, ticker, start_date, end_date) ==
    LET period(i) ==
            LET period_end == IF i < Len(rows) THEN rows[i + 1].Date - 1 ELSE end_date
            IN  <<Max({rows[i].Date, start_date}), Min({period_end + 1, end_date})>>
        keep == SelectSeq([i \in DOMAIN rows |-> i],
                          LAMBDA i : rows[i].H[ticker] # 0 /\ period(i)[1] <= period(i)[2])
    IN  [k \in DOMAIN keep |-> period(keep[k])]

\* merge_loop with no period ever merged into the one before it.
RECURSIVE merge_loop_keeping_all(_, _, _, _)
merge_loop_keeping_all(periods, i, current, merged) ==
    IF i > Len(periods) THEN Append(merged, current)
    ELSE merge_loop_keeping_all(periods, i + 1, periods[i], Append(merged, current))

\* generate_price_table lines 731-742: periods that touch or overlap are merged.
RECURSIVE merge_loop(_, _, _, _)
merge_loop(periods, i, current, merged) ==
    IF i > Len(periods) THEN Append(merged, current)
    ELSE IF periods[i][1] <= current[2] + 1
    THEN merge_loop(periods, i + 1, <<current[1], Max({current[2], periods[i][2]})>>, merged)
    ELSE merge_loop(periods, i + 1, periods[i], Append(merged, current))

merged_periods(periods) ==
    IF periods = <<>> THEN <<>> ELSE merge_loop(periods, 2, periods[1], <<>>)

\* A float that is not a number, and pd.notna.  The feed states a close of NaN as a
\* close below 0.
NaN == <<0, 0>>
notna(x) == x # NaN
close_price(e, ticker, d) == IF e.close[ticker][d] < 0 THEN NaN ELSE R(e.close[ticker][d])

\* generate_price_table lines 744-809: the closes of one merged period, converted to
\* the portfolio currency, inserted for the days that have no price yet and whose
\* converted close is a number.  A failing currency or rate lookup and an empty
\* download skip the period.
download_period(table, e, now, ticker, portfolio_currency, period) ==
    LET days == feed_close_days(e, now, ticker, period[1], period[2])
        currency == get_currency_from_ticker(e, ticker)
    IN  IF currency_raises(e, ticker) \/ days = {} THEN table
        ELSE IF currency # portfolio_currency /\ exchange_rate_raises(e, now, period[1], period[2])
        THEN table
        ELSE LET prices_sek ==
                     [d \in days |->
                         IF ~notna(close_price(e, ticker, d)) THEN NaN
                         ELSE IF currency # portfolio_currency
                         THEN RMul(close_price(e, ticker, d),
                                   get_exchange_rate(e, now, period[1], period[2])[d])
                         ELSE close_price(e, ticker, d)]
             IN  [k \in DOMAIN table \cup {<<ticker, d>> : d \in {x \in days : notna(prices_sek[x])}} |->
                     IF k \in DOMAIN table THEN table[k] ELSE prices_sek[k[2]]]

\* download_loop with the first period that fails ending the loop over the periods.
RECURSIVE download_loop_aborting(_, _, _, _, _, _)
download_loop_aborting(table, e, now, ticker, portfolio_currency, periods) ==
    IF periods = <<>> THEN table
    ELSE IF \/ currency_raises(e, ticker)
            \/ feed_close_days(e, now, ticker, Head(periods)[1], Head(periods)[2]) = {}
            \/ /\ get_currency_from_ticker(e, ticker) # portfolio_currency
               /\ exchange_rate_raises(e, now, Head(periods)[1], Head(periods)[2])
    THEN table
    ELSE download_loop_aborting(
             download_period(table, e, now, ticker, portfolio_currency, Head(periods)),
             e, now, ticker, portfolio_currency, Tail(periods))

RECURSIVE download_loop(_, _, _, _, _, _)
download_loop(table, e, now, ticker, portfolio_currency, periods) ==
    IF periods = <<>> THEN table
    ELSE download_loop(download_period(table, e, now, ticker, portfolio_currency, Head(periods)),
                       e, now, ticker, portfolio_currency, Tail(periods))

\* The body of the loop over the tickers (lines 667-809).
ticker_step(table, e, now, df, rows, ticker, portfolio_currency, start_date) ==
    download_loop(specified_prices_step(table, e, now, df, ticker, portfolio_currency),
                  e, now, ticker, portfolio_currency,
                  merged_periods(ownership_periods(rows, ticker, start_date, now)))

RECURSIVE tickers_loop(_, _, _, _, _, _, _, _)
tickers_loop(table, e, now, df, rows, tickers, portfolio_currency, start_date) ==
    IF tickers = {} THEN table
    ELSE LET ticker == CHOOSE t \in tickers : TRUE
         IN  tickers_loop(ticker_step(table, e, now, df, rows, ticker,
                                      portfolio_currency, start_date),
                          e, now, df, rows, tickers \ {ticker}, portfolio_currency, start_date)

\* The day generate_price_table starts from (lines 628-648): the day after the latest
\* stored price, or the first snapshot date when no price is stored.
price_start_date(d) ==
    IF "prices" \in d.tables /\ DOMAIN d.prices # {}
    THEN Max({k[2] : k \in DOMAIN d.prices}) + 1
    ELSE Min({d.portfolio.rows[i].Date : i \in DOMAIN d.portfolio.rows})

\* generate_price_table(portfolio_currency, csv_file): [raises, db].  The prices table
\* is created when missing (and stays created when the call then fails); reading the
\* portfolio table fails with DatabaseError when it is missing or empty.
generate_price_table(d, e, now, portfolio_currency, df) ==
    LET created == [d EXCEPT !.tables = @ \cup {"prices"}]
    IN  IF "portfolio" \notin d.tables \/ d.portfolio.rows = <<>>
        THEN [raises |-> <<"DatabaseError">>, db |-> created]
        ELSE IF price_start_date(d) > now
        THEN [raises |-> <<>>, db |-> created]
        ELSE [raises |-> <<>>,
              db |-> [created EXCEPT !.prices =
                         tickers_loop(d.prices, e, now, df, d.portfolio.rows,
                                      d.portfolio.cols, portfolio_currency,
                                      price_start_date(d))]]

\* --------------------------------------------------------------- cash builder

\* The seed of build_cash_table (lines 334-378): [cash, last_processed_date,
\* previous_balance, is_initial_build].  A missing table is seeded one day before the
\* first transaction; an existing empty table on the day of the first transaction; a
\* table with rows resumes from its latest row.
cash_seed(d, df, initial_cash) ==
    LET first == Min({df[i].Date : i \in DOMAIN df})
    IN  IF "cash" \notin d.tables
        THEN [cash |-> (first - 1 :> R(initial_cash)), last_processed_date |-> first - 1,
              previous_balance |-> R(initial_cash), is_initial_build |-> TRUE]
        ELSE IF DOMAIN d.cash # {}
        THEN [cash |-> d.cash, last_processed_date |-> Max(DOMAIN d.cash),
              previous_balance |-> d.cash[Max(DOMAIN d.cash)], is_initial_build |-> FALSE]
        ELSE [cash |-> (first :> R(initial_cash)), last_processed_date |-> first,
              previous_balance |-> R(initial_cash), is_initial_build |-> TRUE]

\* transaction_events taking the rows dated on last_processed_date as well.
transaction_events_from_last_date(df, last_processed_date) ==
    LET new_transactions == SelectSeq(df, LAMBDA r : r.Date >= last_processed_date)
    IN  [i \in DOMAIN new_transactions |->
            [date |-> new_transactions[i].Date, type |-> "transaction",
             Ticker |-> new_transactions[i].Ticker, Type |-> new_transactions[i].Type,
             Amount |-> new_transactions[i].Amount, div |-> 0]]

\* Lines 382-391: the rows dated after last_processed_date, as events.
transaction_events(df, last_processed_date) ==
    LET new_transactions == SelectSeq(df, LAMBDA r : r.Date > last_processed_date)
    IN  [i \in DOMAIN new_transactions |->
            [date |-> new_transactions[i].Date, type |-> "transaction",
             Ticker |-> new_transactions[i].Ticker, Type |-> new_transactions[i].Type,
             Amount |-> new_transactions[i].Amount, div |-> 0]]

\* dividend_days taking every non-zero position, long or short.
dividend_days_any_position(d, e, now, ticker, last_processed_date) ==
    LET rows == d.portfolio.rows
        holdings_after == {i \in DOMAIN rows :
                              rows[i].Date > last_processed_date /\ rows[i].H[ticker] # 0}
    IN  IF holdings_after = {} THEN {}
        ELSE {div_date \in get_dividends(e, now, last_processed_date + 1, now, ticker) :
                 ticker \in DOMAIN get_portfolio(d, div_date)}

\* Lines 394-425 for one ticker: the feed is asked only when a snapshot row dated after
\* last_processed_date holds a positive count; a dividend becomes an event when the
\* holdings as of its date are positive.
dividend_days(d, e, now, ticker, last_processed_date) ==
    LET rows == d.portfolio.rows
        holdings_after == {i \in DOMAIN rows :
                              rows[i].Date > last_processed_date /\ rows[i].H[ticker] > 0}
    IN  IF holdings_after = {} THEN {}
        ELSE {div_date \in get_dividends(e, now, last_processed_date + 1, now, ticker) :
                 LET holdings == get_portfolio(d, div_date)
                 IN  ticker \in DOMAIN holdings /\ holdings[ticker] > 0}

dividend_events(d, e, now, ticker, last_processed_date) ==
    LET days == sorted(dividend_days(d, e, now, ticker, last_processed_date))
    IN  [i \in DOMAIN days |->
            [date |-> days[i], type |-> "dividend", Ticker |-> ticker, Type |-> "Dividend",
             Amount |-> get_portfolio(d, days[i])[ticker], div |-> e.div[ticker][days[i]]]]

RECURSIVE all_dividend_events(_, _, _, _, _)
all_dividend_events(d, e, now, tickers, last_processed_date) ==
    IF tickers = <<>> THEN <<>>
    ELSE (IF Head(tickers) \in d.portfolio.cols
          THEN dividend_events(d, e, now, Head(tickers), last_processed_date)
          ELSE <<>>)
         \o all_dividend_events(d, e, now, Tail(tickers), last_processed_date)

\* events.sort(key=date): a stable sort, so the events of one day keep their order.
RECURSIVE sort_by_date(_, _)
sort_by_date(events, days) ==
    IF days = <<>> THEN <<>>
    ELSE SelectSeq(events, LAMBDA ev : ev.date = Head(days)) \o sort_by_date(events, Tail(days))

sorted_events(d, e, now, df, last_processed_date) ==
    LET events == transaction_events(df, last_processed_date)
                  \o all_dividend_events(d, e, now, TickerSeq, last_processed_date)
    IN  sort_by_date(events, sorted({events[i].date : i \in DOMAIN events}))

\* transaction_effect with the proceeds of a Short taken from the balance.
transaction_effect_short_debits(d, event) ==
    LET price == get_price(d, event.Ticker, event.date)
        transaction_value == RMul(R(event.Amount), price[1])
    IN  IF price = None THEN <<FALSE, RZero>>
        ELSE IF event.Type = "Sell" THEN <<TRUE, transaction_value>>
        ELSE <<TRUE, RNeg(transaction_value)>>

\* Lines 438-485: what a transaction event does: <<processed, change of the balance>>.
\* No price as of the event date: the event is skipped.
transaction_effect(d, event) ==
    LET price == get_price(d, event.Ticker, event.date)
        transaction_value == RMul(R(event.Amount), price[1])
    IN  IF price = None THEN <<FALSE, RZero>>
        ELSE IF event.Type = "Buy" THEN <<TRUE, RNeg(transaction_value)>>
        ELSE IF event.Type = "Sell" THEN <<TRUE, transaction_value>>
        ELSE IF event.Type = "Short" THEN <<TRUE, transaction_value>>
        ELSE IF event.Type = "Cover" THEN <<TRUE, RNeg(transaction_value)>>
        ELSE <<TRUE, RZero>>

\* Lines 487-514: what a dividend event does.  A failing currency or rate lookup skips
\* the event.
dividend_effect(e, now, portfolio_currency, event) ==
    LET total_dividend == RMul(R(event.div), R(event.Amount))
        currency == get_currency_from_ticker(e, event.Ticker)
    IN  IF currency_raises(e, event.Ticker) THEN <<FALSE, RZero>>
        ELSE IF currency = portfolio_currency THEN <<TRUE, total_dividend>>
        ELSE IF exchange_rate_raises(e, now, event.date, event.date) THEN <<FALSE, RZero>>
        ELSE <<TRUE, RMul(total_dividend,
                          get_exchange_rate(e, now, event.date, event.date)[event.date])>>

event_effect(d, e, now, portfolio_currency, event) ==
    IF event.type = "transaction" THEN transaction_effect(d, event)
    ELSE dividend_effect(e, now, portfolio_currency, event)

\* replay with a skipped event ending the loop: the events after it are not processed.
RECURSIVE replay_stopping_at_skip(_, _, _, _, _, _, _)
replay_stopping_at_skip(d, e, now, portfolio_currency, events, current_balance, table) ==
    IF events = <<>> THEN [cash |-> table, balance |-> current_balance, done |-> <<>>]
    ELSE LET event == Head(events)
             effect == event_effect(d, e, now, portfolio_currency, event)
             balance == IF effect[1] THEN RAdd(current_balance, effect[2]) ELSE current_balance
             written == IF effect[1] THEN insert_or_replace(table, event.date, balance) ELSE table
             rest == replay_stopping_at_skip(d, e, now, portfolio_currency,
                                             IF effect[1] THEN Tail(events) ELSE <<>>,
                                             balance, written)
         IN  [rest EXCEPT !.done =
                 <<[event |-> event, processed |-> effect[1], change |-> effect[2]]>> \o @]

\* replay with the entry of a date written once: a later event of the same date does
\* not replace it.
RECURSIVE replay_first_write_wins(_, _, _, _, _, _, _)
replay_first_write_wins(d, e, now, portfolio_currency, events, current_balance, table) ==
    IF events = <<>> THEN [cash |-> table, balance |-> current_balance, done |-> <<>>]
    ELSE LET event == Head(events)
             effect == event_effect(d, e, now, portfolio_currency, event)
             balance == IF effect[1] THEN RAdd(current_balance, effect[2]) ELSE current_balance
             written == IF effect[1] /\ event.date \notin DOMAIN table
                        THEN insert_or_replace(table, event.date, balance) ELSE table
             rest == replay_first_write_wins(d, e, now, portfolio_currency, Tail(events),
                                             balance, written)
         IN  [rest EXCEPT !.done =
                 <<[event |-> event, processed |-> effect[1], change |-> effect[2]]>> \o @]

\* The replay loop (lines 433-514): [cash, balance, done], done being the events with
\* what each did.  A processed event writes the running balance for its date.
RECURSIVE replay(_, _, _, _, _, _, _)
replay(d, e, now, portfolio_currency, events, current_balance, table) ==
    IF events = <<>> THEN [cash |-> table, balance |-> current_balance, done |-> <<>>]
    ELSE LET event == Head(events)
             effect == event_effect(d, e, now, portfolio_currency, event)
             balance == IF effect[1] THEN RAdd(current_balance, effect[2]) ELSE current_balance
             written == IF effect[1] THEN insert_or_replace(table, event.date, balance) ELSE table
             rest == replay(d, e, now, portfolio_currency, Tail(events), balance, written)
         IN  [rest EXCEPT !.done =
                 <<[event |-> event, processed |-> effect[1], change |-> effect[2]]>> \o @]

\* A build_cash_table run that did not get to its events.
NoRun == [ran |-> FALSE, is_initial_build |-> FALSE, last_processed_date |-> 0,
          previous_balance |-> RZero, done |-> <<>>, current_balance |-> RZero]

\* build_cash_table(csv_file, initial_cash, portfolio_currency): [raises, db, run].
\* The seed is committed before the portfolio table is read, so it stays when that
\* read fails.
build_cash_table(d, e, now, df, initial_cash, portfolio_currency) ==
    LET seed == cash_seed(d, df, initial_cash)
        seeded == [d EXCEPT !.tables = @ \cup {"cash"}, !.cash = seed.cash]
        events == sorted_events(d, e, now, df, seed.last_processed_date)
        result == replay(d, e, now, portfolio_currency, events, seed.previous_balance, seed.cash)
    IN  IF "portfolio" \notin d.tables
        THEN [raises |-> <<"DatabaseError">>, db |-> seeded, run |-> NoRun]
        ELSE [raises |-> <<>>,
              db |-> [seeded EXCEPT !.cash = result.cash],
              run |-> [ran |-> TRUE, is_initial_build |-> seed.is_initial_build,
                       last_processed_date |-> seed.last_processed_date,
                       previous_balance |-> seed.previous_balance,
                       done |-> result.done, current_balance |-> result.balance]]

\* sqlite3.connect(db_path) raising when a builder opens the store (lines 326, 620):
\* the builder's handler of Exception raises DatabaseError, and nothing was written.
connect_fails(d) == [raises |-> <<"DatabaseError">>, db |-> d, run |-> NoRun]

\* ------------------------------------------------------- valuation and returns

\* FinTrack.get_portfolio_value raises when get_portfolio or get_cash_balance does
\* (a missing table); a failing get_price is caught inside the loop.
get_portfolio_value_raises(d) == "portfolio" \notin d.tables \/ "cash" \notin d.tables

\* day_value that leaves the short positions out of the sum.
day_value_longs_only(d, target_date) ==
    LET holdings == get_portfolio(d, target_date)
        term(ticker) ==
            IF ticker \in DOMAIN holdings /\ holdings[ticker] > 0
                  /\ get_price(d, ticker, target_date) # None
            THEN RMul(R(holdings[ticker]), get_price(d, ticker, target_date)[1])
            ELSE RZero
        positions == RSumSeq([i \in DOMAIN TickerSeq |-> term(TickerSeq[i])])
        cash_balance == get_cash_balance(d, target_date)
    IN  IF cash_balance # None THEN RAdd(positions, cash_balance[1]) ELSE positions

\* The value of one day (portfolio.py:208-227): shares times price for the holdings
\* that have a price, plus the cash balance when there is one.
day_value(d, target_date) ==
    LET holdings == get_portfolio(d, target_date)
        term(ticker) ==
            IF ticker \in DOMAIN holdings /\ "prices" \in d.tables
                  /\ get_price(d, ticker, target_date) # None
            THEN RMul(R(holdings[ticker]), get_price(d, ticker, target_date)[1])
            ELSE RZero
        positions == RSumSeq([i \in DOMAIN TickerSeq |-> term(TickerSeq[i])])
        cash_balance == get_cash_balance(d, target_date)
    IN  IF cash_balance # None THEN RAdd(positions, cash_balance[1]) ELSE positions

\* FinTrack.get_portfolio_value(from_date, to_date): a value for every day of
\* pd.date_range(from_date, to_date).
get_portfolio_value(d, from_date, to_date) ==
    [target_date \in from_date..to_date |-> day_value(d, target_date)]

\* "x * price if price else 0": None and 0.0 both give 0.
position_value(shares, price) ==
    IF price = None \/ price[1] = RZero THEN RZero ELSE RMul(R(shares), price[1])

\* The sum of amount * price over the period transactions of the given kinds whose
\* price resolves (portfolio.py:445-458).
flows(d, ticker_transactions, kinds) ==
    LET sel == SelectSeq(ticker_transactions,
                         LAMBDA r : r.Type \in kinds /\ get_price(d, r.Ticker, r.Date) # None)
    IN  RSumSeq([i \in DOMAIN sel |->
                    RMul(R(sel[i].Amount), get_price(d, sel[i].Ticker, sel[i].Date)[1])])

\* stock_return with every position taken as open: the closed case never applies.
stock_return_open_only(d, df, ticker, from_date, to_date) ==
    LET start_portfolio == get_portfolio(d, from_date)
        start_shares == IF ticker \in DOMAIN start_portfolio THEN start_portfolio[ticker] ELSE 0
        start_value == position_value(start_shares, get_price(d, ticker, from_date))
        end_portfolio == get_portfolio(d, to_date)
        end_shares == IF ticker \in DOMAIN end_portfolio THEN end_portfolio[ticker] ELSE 0
        end_value == position_value(end_shares, get_price(d, ticker, to_date))
        ticker_transactions ==
            SelectSeq(df, LAMBDA r : r.Date >= from_date /\ r.Date <= to_date /\ r.Ticker = ticker)
        total_outflows == flows(d, ticker_transactions, {"Buy", "Cover"})
        total_inflows == flows(d, ticker_transactions, Types \ {"Buy", "Cover"})
        net_investment == RSub(total_outflows, total_inflows)
        capital_at_risk == RAdd(start_value, net_investment)
        gain_loss == RSub(RSub(end_value, start_value), net_investment)
    IN  IF capital_at_risk # RZero THEN Some(RDiv(gain_loss, RAbs(capital_at_risk)))
        ELSE None

\* The body of the loop of get_stock_returns for one ticker (portfolio.py:425-492):
\* None when no return is reported.
stock_return(d, df, ticker, from_date, to_date) ==
    LET start_portfolio == get_portfolio(d, from_date)
        start_shares == IF ticker \in DOMAIN start_portfolio THEN start_portfolio[ticker] ELSE 0
        start_value == position_value(start_shares, get_price(d, ticker, from_date))
        end_portfolio == get_portfolio(d, to_date)
        end_shares == IF ticker \in DOMAIN end_portfolio THEN end_portfolio[ticker] ELSE 0
        end_value == position_value(end_shares, get_price(d, ticker, to_date))
        ticker_transactions ==
            SelectSeq(df, LAMBDA r : r.Date >= from_date /\ r.Date <= to_date /\ r.Ticker = ticker)
        total_outflows == flows(d, ticker_transactions, {"Buy", "Cover"})
        total_inflows == flows(d, ticker_transactions, Types \ {"Buy", "Cover"})
        net_investment == RSub(total_outflows, total_inflows)
        capital_at_risk == RAdd(start_value, net_investment)
        gain_loss == RSub(RSub(end_value, start_value), net_investment)
        total_deployed == RAdd(RAbs(start_value), total_outflows)
    IN  IF end_value = RZero
           /\ (start_value # RZero \/ RLt(RZero, total_outflows) \/ RLt(RZero, total_inflows))
        THEN (IF RLt(RZero, total_deployed) THEN Some(RDiv(gain_loss, total_deployed)) ELSE None)
        ELSE IF capital_at_risk # RZero THEN Some(RDiv(gain_loss, RAbs(capital_at_risk)))
        ELSE None

\* FinTrack.get_stock_returns(from_date, to_date): the returns of the tickers held at
\* from_date or traded in the period, for which one is reported.
get_stock_returns(d, df, from_date, to_date) ==
    LET all_tickers ==
            DOMAIN get_portfolio(d, from_date)
            \cup {df[i].Ticker : i \in {j \in DOMAIN df : df[j].Date >= from_date
                                                          /\ df[j].Date <= to_date}}
        reported == {t \in all_tickers : stock_return(d, df, t, from_date, to_date) # None}
    IN  [t \in reported |-> stock_return(d, df, t, from_date, to_date)[1]]

\* get_stock_returns_failing with the first failing ticker ending the loop: nothing is
\* reported once a lookup has raised.
get_stock_returns_aborting(d, df, from_date, to_date, failing) ==
    IF failing # {} THEN <<>> ELSE get_stock_returns(d, df, from_date, to_date)

\* get_stock_returns when the lookups of the tickers in failing raise (portfolio.py:
\* 423-494): the handler of Exception inside the loop logs a warning and goes on to
\* the next ticker, so a failing ticker has no return and the others have theirs.
get_stock_returns_failing(d, df, from_date, to_date, failing) ==
    LET all_tickers ==
            DOMAIN get_portfolio(d, from_date)
            \cup {df[i].Ticker : i \in {j \in DOMAIN df : df[j].Date >= from_date
                                                          /\ df[j].Date <= to_date}}
        computed == [t \in all_tickers \ failing |-> stock_return(d, df, t, from_date, to_date)]
    IN  [t \in {u \in DOMAIN computed : computed[u] # None} |-> computed[t][1]]

\* ------------------------------------------------------------------ inputs

Days(last) == 0..(last + 1)

\* The feed of the general specifications: X trades in the portfolio currency, has a
\* close of 1 on every day and pays a dividend of 1 per share on day 2; Y trades in
\* USD at a rate of 2, and the feed has neither closes nor dividends for it.
GeneralFeed(last) ==
    [close |-> [t \in Tickers |-> [d \in Days(last) |-> IF t = "X" THEN 1 ELSE 0]],
     div |-> [t \in Tickers |-> [d \in Days(last) |-> IF t = "X" /\ d = 2 THEN 1 ELSE 0]],
     ccy |-> [t \in Tickers |-> IF t = "X" THEN "SEK" ELSE "USD"],
     fx |-> [d \in Days(last) |-> 2]]

\* What the general specifications hold fixed: the file is where the caller says it
\* is and has the five columns, the log has a row before the program runs,
\* initial_cash is passed as an int, and the store always opens.
WellFormed ==
    [columns |-> REQUIRED_COLUMNS, files |-> {CsvFile}, csv_file |-> {CsvFile},
     cash_types |-> {"int"}, minRows |-> 1, faults |-> {FALSE}]

\* The rows the user may write when the program is driven through FinTrack: buys and
\* sells of one share of X or two shares of Y on day 1 or 2, with a price of 2 or
\* without one, and a row of a kind the validator rejects.
GeneralRows ==
    {Row(1, "X", "Buy", 1, <<>>), Row(1, "X", "Buy", 1, <<2>>), Row(1, "X", "Sell", 1, <<>>),
     Row(2, "X", "Sell", 1, <<2>>), Row(2, "X", "Buy", 1, <<>>),
     Row(1, "Y", "Buy", 2, <<>>), Row(2, "Y", "Buy", 2, <<2>>), Row(1, "Y", "Sell", 2, <<2>>),
     Row(1, "X", "Short", 1, <<2>>)}

GeneralEnv ==
    [rows |-> GeneralRows, firstDay |-> 1, lastDay |-> MaxDay,
     initial_cash |-> {10}, currency |-> {"SEK"}]
    @@ GeneralFeed(MaxDay) @@ WellFormed

\* The rows the user may write when the builders are called directly: all four kinds
\* on X, and a buy of Y that no price resolves.
ApiRows ==
    {Row(1, "X", "Buy", 1, <<2>>), Row(2, "X", "Sell", 1, <<2>>),
     Row(1, "X", "Short", 1, <<2>>), Row(2, "X", "Short", 1, <<>>),
     Row(2, "X", "Cover", 1, <<2>>), Row(1, "Y", "Buy", 2, <<>>)}

ApiEnv ==
    [rows |-> ApiRows, firstDay |-> 1, lastDay |-> MaxDay,
     initial_cash |-> {10}, currency |-> {"SEK"}]
    @@ GeneralFeed(MaxDay) @@ WellFormed

\* The scenarios A to D of the specification's section 8: X bought at 100 on day 1
\* and half of it sold at 120 on day 10, Y shorted at 50 on day 1, initial cash 1000.
\* The feed has a flat close of 100 for X except on the days 3 and 4 (a weekend), X pays
\* 2 per share on day 5, everything is in the portfolio currency, and the feed does not
\* list Y, which the last row buys without a price.
ScenarioRows ==
    {Row(1, "X", "Buy", 10, <<100>>), Row(10, "X", "Sell", 5, <<120>>),
     Row(1, "Y", "Short", 5, <<50>>), Row(1, "X", "Sell", 10, <<100>>),
     Row(1, "Y", "Buy", 5, <<>>)}

ScenarioEnv ==
    [rows |-> ScenarioRows, firstDay |-> 1, lastDay |-> 10,
     initial_cash |-> {1000}, currency |-> {"SEK"},
     close |-> [t \in Tickers |->
                   [d \in Days(10) |-> IF t = "X" /\ d \notin {3, 4} THEN 100 ELSE 0]],
     div |-> [t \in Tickers |-> [d \in Days(10) |-> IF t = "X" /\ d = 5 THEN 2 ELSE 0]],
     ccy |-> [t \in Tickers |-> "SEK"],
     fx |-> [d \in Days(10) |-> 0]]
    @@ WellFormed

\* What a caller may hand to FinTrack: besides two rows the validator accepts, rows
\* with a cell that is no date, an amount of 0 or of 1.5, a kind that is no kind, a
\* price of 0 or below 0, text for both amount and price, and a ticker of blanks.
InputRows ==
    {Row(1, "X", "Buy", 1, <<2>>), Row(2, "X", "Sell", 1, <<>>),
     [Row(1, "X", "Buy", 1, <<2>>) EXCEPT !.unparsed = {"Date"}],
     Row(1, "X", "Buy", 0, <<2>>),
     [Row(1, "X", "Buy", 1, <<2>>) EXCEPT !.half = TRUE],
     Row(1, "X", "Hold", 1, <<2>>),
     Row(1, "X", "Buy", 1, <<0>>), Row(1, "X", "Buy", 1, <<-1>>),
     [Row(1, "X", "Buy", 1, <<2>>) EXCEPT !.unparsed = {"Amount", "Price"}],
     Row(1, " ", "Buy", 1, <<2>>)}

\* The headers the file may have: all five columns, or Price or Date missing.
InputColumns == {REQUIRED_COLUMNS, REQUIRED_COLUMNS \ {"Price"}, REQUIRED_COLUMNS \ {"Date"}}

\* The arguments a caller may pass: a path with no file behind it, initial_cash below
\* zero, zero, or passed as a str, and currencies of the wrong length or case.  The
\* file may hold the header alone when the program first runs, and the store may fail
\* to open when the price or the cash builder connects to it.
InputEnv ==
    [rows |-> InputRows, firstDay |-> 1, lastDay |-> 2,
     initial_cash |-> {-1, 0}, cash_types |-> {"int", "str"},
     currency |-> {"SEK", "usd", "US", "US1"},
     columns |-> REQUIRED_COLUMNS, files |-> {CsvFile},
     csv_file |-> {CsvFile, "/nonexistent/file.csv"}, minRows |-> 0,
     faults |-> {FALSE, TRUE}]
    @@ GeneralFeed(2)

\* The builders called directly on a store that may already hold a cash table
\* without rows: buys and sells of X on days 1 and 2, with and without a price.
SeedRows ==
    {Row(1, "X", "Buy", 1, <<2>>), Row(1, "X", "Buy", 1, <<>>),
     Row(2, "X", "Sell", 1, <<2>>), Row(2, "X", "Buy", 1, <<>>)}

SeedEnv ==
    [rows |-> SeedRows, firstDay |-> 1, lastDay |-> MaxDay,
     initial_cash |-> {10}, currency |-> {"SEK"}]
    @@ GeneralFeed(MaxDay) @@ WellFormed

\* A store whose cash table exists and has no row: what build_cash_table leaves when
\* it fails between its CREATE TABLE (lines 334-342) and the commit of the seed row
\* (line 349), as on a file of the header alone, where the seed date of line 344
\* cannot be computed.
EmptyCashTable == [EmptyDb EXCEPT !.tables = {"cash"}]

\* The logs the file may hold when the program first runs on a feed with gaps: X
\* bought on day 1, sold on day 2 and bought again on day 4, so that X is owned over two
\* periods more than a day apart; the same with Y bought on day 1 and kept, so that Y
\* is owned over three snapshots in a row; X and Y bought on day 1; and X alone.
FeedLogs ==
    {<<Row(1, "X", "Buy", 1, <<>>), Row(2, "X", "Sell", 1, <<>>), Row(4, "X", "Buy", 1, <<>>)>>,
     <<Row(1, "Y", "Buy", 2, <<>>), Row(1, "X", "Buy", 1, <<>>), Row(2, "X", "Sell", 1, <<>>),
       Row(4, "X", "Buy", 1, <<>>)>>,
     <<Row(1, "X", "Buy", 1, <<>>), Row(1, "Y", "Buy", 2, <<>>)>>,
     <<Row(1, "X", "Buy", 1, <<>>)>>}

\* The feeds with gaps, over the days 0 to 6.  X trades in the portfolio currency and
\* Y in USD.  In turn: a feed without gaps; no close of X before day 4 (the download
\* of the first period of X comes back empty); no currency for Y (the lookup raises);
\* no exchange rate on any day (the rate lookup raises); a close of X on day 1 that is
\* NaN.
FeedOf(kind) ==
    [close |-> [t \in Tickers |-> [d \in 0..6 |->
                   IF t = "Y" THEN 3
                   ELSE IF kind = "empty" /\ d < 4 THEN 0
                   ELSE IF kind = "nan" /\ d = 1 THEN -1
                   ELSE 1]],
     div |-> [t \in Tickers |-> [d \in 0..6 |-> 0]],
     ccy |-> [t \in Tickers |-> IF t = "X" THEN "SEK" ELSE IF kind = "currency" THEN "" ELSE "USD"],
     fx |-> [d \in 0..6 |-> IF kind = "rate" THEN 0 ELSE 2]]

FeedKinds == {"whole", "empty", "currency", "rate", "nan"}

\* The program on the feeds with gaps, from day 4 to day 5; the user may add a
\* purchase of Y on day 1 or a sale of X on day 1 or 2.
FeedEnv(kind) ==
    [rows |-> {Row(1, "Y", "Buy", 2, <<>>), Row(2, "X", "Sell", 1, <<>>),
               Row(1, "X", "Sell", 1, <<>>)},
     firstDay |-> 4, lastDay |-> 5, initial_cash |-> {10}, currency |-> {"SEK"}]
    @@ FeedOf(kind) @@ WellFormed

\* -------------------------------------------------------------------- state

NoCall == [kind |-> "none", initial_cash |-> 0, currency |-> "", csv_file |-> "", done |-> {}]
NoObject == [exists |-> FALSE, initial_cash |-> 0, currency |-> "", csv_file |-> ""]

\* The program before its first call, with the store d on disk.
InitStore(e, d) ==
    /\ env = e
    /\ \/ \E r \in e.rows : log = <<r>>
       \/ e.minRows = 0 /\ log = <<>>
    /\ today = e.firstDay
    /\ db = d
    /\ obj = NoObject
    /\ pc = "idle"
    /\ call = NoCall
    /\ err = <<>>
    /\ cashRun = NoRun

InitWith(e) == InitStore(e, EmptyDb)

Init == InitWith(GeneralEnv)
InitApi == InitWith(ApiEnv)
InitScenario == InitWith(ScenarioEnv)
InitSeed == \E d \in {EmptyDb, EmptyCashTable} : InitStore(SeedEnv, d)
InitInput == \E columns \in InputColumns : InitWith([InputEnv EXCEPT !.columns = columns])

\* The program before its first call on one of the feeds with gaps, the file holding
\* one of the logs above.
InitFeed ==
    \E kind \in FeedKinds, rows \in FeedLogs :
        /\ env = FeedEnv(kind)
        /\ log = rows
        /\ today = FeedEnv(kind).firstDay
        /\ db = EmptyDb
        /\ obj = NoObject
        /\ pc = "idle"
        /\ call = NoCall
        /\ err = <<>>
        /\ cashRun = NoRun

\* ------------------------------------------------------------------- actions

\* The user appends a row to the CSV file.
AppendRow ==
    /\ pc = "idle"
    /\ Len(log) < MaxLog
    /\ \E r \in env.rows : log' = Append(log, r)
    /\ UNCHANGED <<env, today, db, obj, pc, call, err, cashRun>>

\* Midnight passes.
NextDay ==
    /\ pc = "idle"
    /\ today < env.lastDay
    /\ today' = today + 1
    /\ UNCHANGED <<env, log, db, obj, pc, call, err, cashRun>>

\* validate_initial_cash(initial_cash): the exception it raises, <<>> if none.  The
\* argument is [type, value]; a str argument spells the number that is its value.
validate_initial_cash(initial_cash) ==
    IF initial_cash.type \notin {"int", "float"} THEN <<"ValidationError">>
    ELSE IF initial_cash.value < 0 THEN <<"ValidationError">>
    ELSE <<>>

\* str.isupper() on the currency arguments of the model: some cased character, and
\* none of them lowercase.
isupper(s) == s \in {"SEK", "USD", "US1", "INVALID"}

\* validate_currency(currency), for a str argument.
validate_currency(currency) ==
    IF Len(currency) # 3 THEN <<"ValidationError">>
    ELSE IF ~isupper(currency) THEN <<"ValidationError">>
    ELSE <<>>

\* FinTrack(initial_cash, currency, csv_file) up to the try block of __init__
\* (portfolio.py:76-88): the two validators raise to the caller, ahead of the try block.
ConstructWith(initial_cash, currency, csv_file) ==
    /\ pc = "idle"
    /\ LET raises == IF validate_initial_cash(initial_cash) # <<>>
                     THEN validate_initial_cash(initial_cash)
                     ELSE validate_currency(currency)
       IN  IF raises # <<>>
           THEN /\ err' = raises
                /\ UNCHANGED <<pc, call>>
           ELSE /\ err' = <<>>
                /\ pc' = "holdings"
                /\ call' = [kind |-> "init", initial_cash |-> initial_cash.value,
                            currency |-> currency, csv_file |-> csv_file, done |-> {}]
    /\ UNCHANGED <<env, log, today, db, obj, cashRun>>

\* The arguments a caller may pass for initial_cash.
CashArguments(e) == [type : e.cash_types, value : e.initial_cash]

Construct ==
    \E initial_cash \in CashArguments(env), currency \in env.currency, csv_file \in env.csv_file :
        ConstructWith(initial_cash, currency, csv_file)

\* FinTrack.update_portfolio up to its try block (portfolio.py:110-112).
UpdatePortfolio ==
    /\ pc = "idle"
    /\ obj.exists
    /\ call' = [kind |-> "update", initial_cash |-> obj.initial_cash,
                currency |-> obj.currency, csv_file |-> obj.csv_file, done |-> {}]
    /\ pc' = "holdings"
    /\ err' = <<>>
    /\ UNCHANGED <<env, log, today, db, obj, cashRun>>

\* AfterStep with the call going from the holdings build straight to the cash build.
AfterStep_skipping_prices(step, next, raises) ==
    IF raises # <<>>
    THEN /\ err' = <<"FinTrackError">> \o raises
         /\ pc' = "idle"
         /\ call' = NoCall
         /\ UNCHANGED obj
    ELSE /\ err' = <<>>
         /\ pc' = IF step = "holdings" THEN "cash" ELSE next
         /\ call' = IF next = "idle" THEN NoCall ELSE [call EXCEPT !.done = @ \cup {step}]
         /\ obj' = IF next = "idle" /\ call.kind = "init"
                   THEN [exists |-> TRUE, initial_cash |-> call.initial_cash,
                         currency |-> call.currency, csv_file |-> call.csv_file]
                   ELSE obj

\* AfterStep with the exception of the builder dropped and the call carrying on.
AfterStep_swallowing(step, next, raises) ==
    /\ err' = <<>>
    /\ pc' = next
    /\ call' = IF next = "idle" THEN NoCall ELSE [call EXCEPT !.done = @ \cup {step}]
    /\ obj' = IF next = "idle" /\ call.kind = "init"
              THEN [exists |-> TRUE, initial_cash |-> call.initial_cash,
                    currency |-> call.currency, csv_file |-> call.csv_file]
              ELSE obj

\* How a builder leaves the FinTrack call that ran it (portfolio.py:88-95, 112-119):
\* an exception is wrapped in FinTrackError and ends the call; after the last builder
\* the call returns, and __init__ hands the object to its caller.
AfterStep(step, next, raises) ==
    IF raises # <<>>
    THEN /\ err' = <<"FinTrackError">> \o raises
         /\ pc' = "idle"
         /\ call' = NoCall
         /\ UNCHANGED obj
    ELSE /\ err' = <<>>
         /\ pc' = next
         /\ call' = IF next = "idle" THEN NoCall ELSE [call EXCEPT !.done = @ \cup {step}]
         /\ obj' = IF next = "idle" /\ call.kind = "init"
                   THEN [exists |-> TRUE, initial_cash |-> call.initial_cash,
                         currency |-> call.currency, csv_file |-> call.csv_file]
                   ELSE obj

\* First statement of the try block: build_holding_table(csv_file, user_id).
StepHoldings ==
    /\ pc = "holdings"
    /\ LET res == build_holding_table(db, files(env, log), call.csv_file)
       IN  /\ db' = res.db
           /\ AfterStep("holdings", "prices", res.raises)
    /\ UNCHANGED <<env, log, today, cashRun>>

\* Second statement: generate_price_table(currency, csv_file, user_id).
StepPrices ==
    /\ pc = "prices"
    /\ \E fault \in env.faults :
           LET res == IF fault THEN connect_fails(db)
                      ELSE generate_price_table(db, env, today, call.currency, log)
           IN  /\ db' = res.db
               /\ AfterStep("prices", "cash", res.raises)
    /\ UNCHANGED <<env, log, today, cashRun>>

\* Third statement: build_cash_table(csv_file, initial_cash, currency, user_id).
StepCash ==
    /\ pc = "cash"
    /\ \E fault \in env.faults :
           LET res == IF fault THEN connect_fails(db)
                      ELSE build_cash_table(db, env, today, log, call.initial_cash,
                                            call.currency)
           IN  /\ db' = res.db
               /\ cashRun' = res.run
               /\ AfterStep("cash", "idle", res.raises)
    /\ UNCHANGED <<env, log, today>>

\* The builders as the package exports them (__init__.py:16-21), called directly.
BuildHoldingTable ==
    /\ pc = "idle"
    /\ LET res == build_holding_table(db, files(env, log), CsvFile)
       IN  /\ db' = res.db
           /\ err' = res.raises
    /\ UNCHANGED <<env, log, today, obj, pc, call, cashRun>>

GeneratePriceTable ==
    /\ pc = "idle"
    /\ \E cur \in env.currency :
           LET res == generate_price_table(db, env, today, cur, log)
           IN  /\ db' = res.db
               /\ err' = res.raises
    /\ UNCHANGED <<env, log, today, obj, pc, call, cashRun>>

BuildCashTable ==
    /\ pc = "idle"
    /\ \E c \in env.initial_cash, cur \in env.currency :
           LET res == build_cash_table(db, env, today, log, c, cur)
           IN  /\ db' = res.db
               /\ cashRun' = res.run
               /\ err' = res.raises
    /\ UNCHANGED <<env, log, today, obj, pc, call>>

\* The program driven through the FinTrack class.
Next ==
    \/ AppendRow
    \/ NextDay
    \/ Construct
    \/ UpdatePortfolio
    \/ StepHoldings
    \/ StepPrices
    \/ StepCash

Spec == Init /\ [][Next]_vars

\* The builders driven directly.
NextApi ==
    \/ AppendRow
    \/ NextDay
    \/ BuildHoldingTable
    \/ GeneratePriceTable
    \/ BuildCashTable

SpecApi == InitApi /\ [][NextApi]_vars

\* The scenarios of the specification's section 8, driven through the FinTrack class.
SpecScenario == InitScenario /\ [][Next]_vars

\* The builders driven directly, on a store that may hold an empty cash table.
SpecSeed == InitSeed /\ [][NextApi]_vars

\* The FinTrack class handed whatever file and arguments a caller may pass.
SpecInput == InitInput /\ [][Next]_vars

\* The FinTrack class on a feed with gaps.
SpecFeed == InitFeed /\ [][Next]_vars

\* ================================================================== claims

\* The dates and tickers of a log.
LogDates(df) == {df[i].Date : i \in DOMAIN df}
LogTickers(df) == {df[i].Ticker : i \in DOMAIN df}

\* Sum of Amount over the rows of df of the given ticker and kinds dated up to D,
\* read from the raw log row by row.
RECURSIVE AmountUpTo(_, _, _, _)
AmountUpTo(df, ticker, kinds, D) ==
    IF df = <<>> THEN 0
    ELSE (IF Head(df).Ticker = ticker /\ Head(df).Type \in kinds /\ Head(df).Date <= D
          THEN Head(df).Amount ELSE 0)
         + AmountUpTo(Tail(df), ticker, kinds, D)

\* C1: once build_holding_table has completed on the log (the call has moved on to the
\* price build), the holdings table has exactly one snapshot row per distinct
\* transaction date, and for every snapshot date D and every ticker of the log the
\* stored count is (Buy + Cover amounts dated <= D) - (Sell + Short amounts dated
\* <= D), 0 when the two are equal.
C1_HoldingsMatchLog ==
    pc = "prices" =>
        LET rows == db.portfolio.rows
        IN  /\ {rows[i].Date : i \in DOMAIN rows} = LogDates(log)
            /\ Len(rows) = Cardinality(LogDates(log))
            /\ db.portfolio.cols = LogTickers(log)
            /\ \A i \in DOMAIN rows : \A t \in LogTickers(log) :
                   rows[i].H[t] = AmountUpTo(log, t, {"Buy", "Cover"}, rows[i].Date)
                                  - AmountUpTo(log, t, {"Sell", "Short"}, rows[i].Date)

\* C1 witness: a bought share sold a day later: two snapshot rows, 1 then 0.
C1_Witness ==
    /\ pc = "prices"
    /\ Len(db.portfolio.rows) = 2
    /\ db.portfolio.rows[1].H["X"] = 1
    /\ db.portfolio.rows[2].H["X"] = 0
    /\ \E i \in DOMAIN log : log[i].Type = "Sell"

\* The entries of a stored series dated up to the target, and the latest of them.
UpTo(dates, target_date) == {s \in dates : s <= target_date}
Latest(dates) == CHOOSE s \in dates : \A o \in dates : o <= s

\* The days a lookup is asked for: the days before the first transaction, the days of
\* the first week, a day between the week and the last day, the last day and the day
\* after it.
LookupDays == (-1)..5 \cup {env.lastDay - 3, env.lastDay, env.lastDay + 1}

\* C2: with the three tables in place, each lookup returns the stored entry with the
\* largest date <= the target date (get_portfolio: its non-zero counts), and the empty
\* mapping or None when no stored date is <= the target date.
C2_LookupsAsOf ==
    {"portfolio", "prices", "cash"} \subseteq db.tables =>
        \A target_date \in LookupDays :
            /\ LET rows == db.portfolio.rows
                   below == UpTo({rows[i].Date : i \in DOMAIN rows}, target_date)
                   found == get_portfolio(db, target_date)
               IN  IF below = {} THEN found = <<>>
                   ELSE \E i \in DOMAIN rows :
                            /\ rows[i].Date = Latest(below)
                            /\ \A t \in db.portfolio.cols :
                                   IF rows[i].H[t] = 0 THEN t \notin DOMAIN found
                                   ELSE t \in DOMAIN found /\ found[t] = rows[i].H[t]
            /\ LET below == UpTo(DOMAIN db.cash, target_date)
               IN  IF below = {} THEN get_cash_balance(db, target_date) = None
                   ELSE get_cash_balance(db, target_date) = Some(db.cash[Latest(below)])
            /\ \A ticker \in Tickers :
                   LET below == UpTo({k[2] : k \in {q \in DOMAIN db.prices : q[1] = ticker}},
                                     target_date)
                   IN  IF below = {} THEN get_price(db, ticker, target_date) = None
                       ELSE get_price(db, ticker, target_date)
                                = Some(db.prices[<<ticker, Latest(below)>>])

\* C2 witness: X bought on day 1 and half sold on day 10, built on day 10: day 7 lies
\* strictly between the snapshots of day 1 and 10 and between the cash entries of day
\* 5 and 10, day 4 between the prices of day 2 and 5, and day 0 before every snapshot
\* and price.
C2_Witness ==
    /\ {"portfolio", "prices", "cash"} \subseteq db.tables
    /\ {db.portfolio.rows[i].Date : i \in DOMAIN db.portfolio.rows} = {1, 10}
    /\ get_portfolio(db, 7) = [t \in {"X"} |-> 10]
    /\ get_portfolio(db, 10) = [t \in {"X"} |-> 5]
    /\ get_portfolio(db, 0) = <<>>
    /\ {5, 10} \subseteq DOMAIN db.cash /\ 7 \notin DOMAIN db.cash
    /\ get_cash_balance(db, 7) = Some(db.cash[5])
    /\ get_cash_balance(db, -1) = None
    /\ <<"X", 2>> \in DOMAIN db.prices /\ <<"X", 4>> \notin DOMAIN db.prices
    /\ get_price(db, "X", 4) = Some(db.prices[<<"X", 2>>])
    /\ get_price(db, "X", 0) = None

\* The try block of FinTrack.__init__ and of update_portfolio as one function of the
\* store: the three builders in order, stopping at the first that raises.
build_all(d, e, now, df, initial_cash, portfolio_currency) ==
    LET holdings == build_holding_table(d, files(e, df), CsvFile)
        prices == generate_price_table(holdings.db, e, now, portfolio_currency, df)
        cash == build_cash_table(prices.db, e, now, df, initial_cash, portfolio_currency)
    IN  IF holdings.raises # <<>> THEN [raises |-> holdings.raises, db |-> holdings.db]
        ELSE IF prices.raises # <<>> THEN [raises |-> prices.raises, db |-> prices.db]
        ELSE [raises |-> cash.raises, db |-> cash.db]

\* The balance of the latest entry of the cash table.
FinalBalance(d) == d.cash[Latest(DOMAIN d.cash)]

\* The log splits after its k-th row at a date: every row up to k is dated before every
\* row after k.
SplitsAt(df, k) ==
    \A i \in 1..k, j \in (k + 1)..Len(df) : df[i].Date < df[j].Date

\* C3: whenever the store is the result of building all ledgers from the part of the
\* log dated up to a split date and, after the remaining rows were appended, running
\* the builders again, its final cash balance is that of a single initial build over
\* the full log with the same feed.  Stated for logs without a row dated in the future.
C3_IncrementalEqualsSingleBuild ==
    \A k \in 1..(Len(log) - 1), built \in env.firstDay..today :
        LET first == build_all(EmptyDb, env, built, SubSeq(log, 1, k),
                               obj.initial_cash, obj.currency)
            resumed == build_all(first.db, env, today, log, obj.initial_cash, obj.currency)
            single == build_all(EmptyDb, env, today, log, obj.initial_cash, obj.currency)
        IN  (/\ pc = "idle" /\ obj.exists /\ err = <<>>
             /\ SplitsAt(log, k)
             /\ \A i \in DOMAIN log : log[i].Date <= today
             /\ first.raises = <<>> /\ resumed.raises = <<>> /\ single.raises = <<>>
             /\ db = resumed.db)
            => FinalBalance(db) = FinalBalance(single.db)

\* n * p for a row of the log, p being the price as of the row's date, and its sum
\* over the rows of the given kinds.
RowValue(d, r) == RMul(R(r.Amount), get_price(d, r.Ticker, r.Date)[1])

RECURSIVE ValueOf(_, _, _)
ValueOf(d, df, kinds) ==
    IF df = <<>> THEN RZero
    ELSE RAdd(IF Head(df).Type \in kinds THEN RowValue(d, Head(df)) ELSE RZero,
              ValueOf(d, Tail(df), kinds))

\* The balance after the first i events of a run.
RECURSIVE BalanceAfter(_, _)
BalanceAfter(run, i) ==
    IF i = 0 THEN run.previous_balance
    ELSE RAdd(BalanceAfter(run, i - 1),
              IF run.done[i].processed THEN run.done[i].change ELSE RZero)

\* C4: in every run of build_cash_table a processed transaction of n shares at the
\* resolved price p moves the running balance by -n*p (Buy), +n*p (Sell), +n*p (Short)
\* or -n*p (Cover), the balance written for its date being the running balance; and
\* an initial build without dividend events in which every price resolves ends at
\* initial cash - sum of n*p over Buy and Cover + sum of n*p over Sell and Short.
C4_CashEffectPerType ==
    [][BuildCashTable /\ cashRun'.ran =>
        LET run == cashRun'
            done == run.done
            transactions == {i \in DOMAIN done : done[i].event.type = "transaction"}
        IN  /\ \A i \in transactions :
                   LET ev == done[i].event
                       p == get_price(db, ev.Ticker, ev.date)
                       np == RMul(R(ev.Amount), p[1])
                   IN  /\ done[i].processed <=> p # None
                       /\ done[i].processed =>
                              /\ ev.Type \in {"Buy", "Cover"} => done[i].change = RNeg(np)
                              /\ ev.Type \in {"Sell", "Short"} => done[i].change = np
                              /\ (i = Len(done) \/ done[i + 1].event.date # ev.date)
                                     => db'.cash[ev.date] = BalanceAfter(run, i)
            /\ run.current_balance = BalanceAfter(run, Len(done))
            /\ (/\ run.is_initial_build
                /\ transactions = DOMAIN done
                /\ \A i \in DOMAIN log : get_price(db, log[i].Ticker, log[i].Date) # None)
               => \E c \in env.initial_cash :
                      LET expected == RAdd(RSub(R(c), ValueOf(db, log, {"Buy", "Cover"})),
                                           ValueOf(db, log, {"Sell", "Short"}))
                      IN  /\ run.current_balance = expected
                          /\ FinalBalance(db') = expected]_vars

\* C4 witness: an initial build that replayed a Buy and a Short of one X at 2 on day 1,
\* and nothing else: -2, then +2, ending at the initial 10.
C4_Witness ==
    /\ cashRun.ran /\ cashRun.is_initial_build
    /\ Len(cashRun.done) = 2
    /\ cashRun.done[1].event.Type = "Buy" /\ cashRun.done[1].processed
    /\ cashRun.done[1].change = R(-2)
    /\ cashRun.done[2].event.Type = "Short" /\ cashRun.done[2].processed
    /\ cashRun.done[2].change = R(2)
    /\ db.cash = (0 :> R(10)) @@ (1 :> R(10))

\* C5: with the log "Buy 10 X at 100 on day 1, Sell 5 X at 120 on day 10" built into the
\* ledgers by day 10 (5 shares left on day 10, price as of day 1 = 100, as of day 10 = 120),
\* get_stock_returns(day 1, day 10) reports 0.50 for X.
C5_ScenarioCReturn ==
    (/\ pc = "idle" /\ obj.exists /\ today = 10
     /\ log = <<Row(1, "X", "Buy", 10, <<100>>), Row(10, "X", "Sell", 5, <<120>>)>>
     /\ get_portfolio(db, 1) = [t \in {"X"} |-> 10]
     /\ get_portfolio(db, 10) = [t \in {"X"} |-> 5]
     /\ get_price(db, "X", 1) = Some(R(100))
     /\ get_price(db, "X", 10) = Some(R(120)))
    => /\ "X" \in DOMAIN get_stock_returns(db, log, 1, 10)
       /\ get_stock_returns(db, log, 1, 10)["X"] = RDiv(R(1), R(2))

\* C6: for the log of the single row "Short 5 Y at 50 on day 1" and initial cash 1000,
\* once FinTrack has been called on it the build has succeeded, with holdings(day 1)[Y]
\* = -5, cash(day 1) = 1250 and value(day 1) = 975.
C6_ScenarioBShort ==
    (/\ pc = "idle"
     /\ log = <<Row(1, "Y", "Short", 5, <<50>>)>>
     /\ (obj.exists \/ err # <<>>))
    => /\ err = <<>> /\ obj.exists
       /\ get_portfolio(db, 1) = [t \in {"Y"} |-> -5]
       /\ get_cash_balance(db, 1) = Some(R(1250))
       /\ get_portfolio_value(db, 1, 1)[1] = R(975)

\* A step that is a build_cash_table run, made by FinTrack, that returned.
CashBuilt == pc = "cash" /\ pc' = "idle" /\ err' = <<>> /\ cashRun'.ran

\* The shares of a ticker held as of a day, 0 when the snapshot does not list it.
SharesAsOf(d, ticker, day) ==
    LET held == get_portfolio(d, day)
    IN  IF ticker \in DOMAIN held THEN held[ticker] ELSE 0

\* The indices of the dividend events of a run for a ticker and a day.
DividendEvents(run, ticker, day) ==
    {i \in DOMAIN run.done : /\ run.done[i].event.type = "dividend"
                             /\ run.done[i].event.Ticker = ticker
                             /\ run.done[i].event.date = day}

\* C7: in every build_cash_table run, a dividend event exists only for a ticker whose
\* holdings as of the dividend date are strictly positive; for a ticker in the portfolio
\* currency it adds per-share amount * shares held as of that date to the running
\* balance; a dividend on a day the position is short or zero has no event, and every
\* cash entry is either what it was before the run or the running balance after the
\* last processed event of its date.
C7_DividendsOnLongOnly ==
    [][CashBuilt =>
        LET run == cashRun'
            done == run.done
        IN  /\ \A i \in DOMAIN done :
                   done[i].event.type = "dividend" =>
                       LET ev == done[i].event
                       IN  /\ SharesAsOf(db, ev.Ticker, ev.date) > 0
                           /\ ev.Amount = SharesAsOf(db, ev.Ticker, ev.date)
                           /\ ev.div = env.div[ev.Ticker][ev.date]
                           /\ env.ccy[ev.Ticker] = call.currency =>
                                  /\ done[i].processed
                                  /\ done[i].change = R(ev.div * ev.Amount)
            /\ \A t \in Tickers, day \in Days(env.lastDay) :
                   (env.div[t][day] # 0 /\ SharesAsOf(db, t, day) <= 0)
                       => DividendEvents(run, t, day) = {}
            /\ \A k \in DOMAIN db'.cash :
                   LET at == {i \in DOMAIN done : done[i].event.date = k /\ done[i].processed}
                   IN  IF at # {} THEN db'.cash[k] = BalanceAfter(run, Latest(at))
                       ELSE IF k \in DOMAIN db.cash THEN db'.cash[k] = db.cash[k]
                       ELSE db'.cash[k] = R(call.initial_cash)]_vars

\* C7 witness: scenario D: 10 X bought at 100 on day 1 with 1000 of cash, built after
\* the dividend of 2 per share of day 5: the day-5 entry is 0 + 20.
C7_Witness ==
    /\ pc = "idle" /\ obj.exists /\ cashRun.ran
    /\ log = <<Row(1, "X", "Buy", 10, <<100>>)>>
    /\ \E i \in DOMAIN cashRun.done :
           /\ cashRun.done[i].event.type = "dividend"
           /\ cashRun.done[i].event.date = 5
           /\ cashRun.done[i].event.Amount = 10
           /\ cashRun.done[i].change = R(20)
    /\ db.cash = (0 :> R(1000)) @@ (1 :> R(0)) @@ (5 :> R(20))

\* C8: in every build_cash_table run, initial or incremental, each dividend of the feed
\* dated after the run's last processed date and up to today, on a ticker (in the
\* portfolio currency) whose holdings as of the dividend date are strictly positive, has
\* a dividend event that is processed and adds per-share amount * shares to the balance.
C8_EveryDividendCredited ==
    [][CashBuilt =>
        LET run == cashRun'
        IN  \A t \in Tickers, day \in (run.last_processed_date + 1)..today :
                (/\ day \in get_dividends(env, today, run.last_processed_date + 1, today, t)
                 /\ SharesAsOf(db, t, day) > 0
                 /\ env.ccy[t] = call.currency)
                => \E i \in DividendEvents(run, t, day) :
                       /\ run.done[i].processed
                       /\ run.done[i].change = R(env.div[t][day] * SharesAsOf(db, t, day))]_vars

\* Signed shares times price as of the day, summed over the tickers with a non-zero
\* count as of the day and a price as of the day.
RECURSIVE PositionsValue(_, _, _)
PositionsValue(d, tickers, day) ==
    IF tickers = {} THEN RZero
    ELSE LET t == CHOOSE x \in tickers : TRUE
             shares == SharesAsOf(d, t, day)
             price == IF shares = 0 THEN None ELSE get_price(d, t, day)
             worth == IF price # None THEN RMul(R(shares), price[1]) ELSE RZero
         IN  RAdd(worth, PositionsValue(d, tickers \ {t}, day))

\* The value the claim gives a day: positions plus the cash as of the day, if any.
ValueAsOf(d, day) ==
    LET cash == get_cash_balance(d, day)
    IN  RAdd(PositionsValue(d, Tickers, day), IF cash = None THEN RZero ELSE cash[1])

\* The ranges get_portfolio_value is asked for: from before the first cash entry to the
\* last day, the first day alone, and a range of no day.
ValueRanges == {<<-1, env.lastDay>>, <<1, 1>>, <<2, 1>>}

\* C9: for a constructed FinTrack, get_portfolio_value(from, to) does not raise and maps
\* every day of [from, to], and only those, to the sum over the tickers held (long or
\* short) as of the day of shares * price as of the day, a ticker without a price
\* counting 0, plus the cash as of the day, no cash entry counting 0; and for the log of
\* one Buy of 10 X at 100 on day 1 with initial cash 1000, value(day 1) = 1000.
C9_PortfolioValue ==
    (pc = "idle" /\ obj.exists) =>
        /\ ~get_portfolio_value_raises(db)
        /\ \A range \in ValueRanges :
               get_portfolio_value(db, range[1], range[2])
                   = [day \in range[1]..range[2] |-> ValueAsOf(db, day)]
        /\ (log = <<Row(1, "X", "Buy", 10, <<100>>)>> /\ obj.initial_cash = 1000)
               => get_portfolio_value(db, 1, 1)[1] = R(1000)

\* C9 witness: 10 X bought at 100 and 5 Y bought without any price, initial cash 1000:
\* the value of day 1 is 10 * 100 + 0 for Y + 0 of cash, and the value of the day
\* before the first cash entry is 0.
C9_Witness ==
    /\ pc = "idle" /\ obj.exists
    /\ get_portfolio(db, 1) = ("X" :> 10) @@ ("Y" :> 5)
    /\ get_price(db, "Y", 1) = None
    /\ get_cash_balance(db, 1) = Some(R(0))
    /\ get_cash_balance(db, -1) = None
    /\ get_portfolio_value(db, -1, 1) = (-1 :> R(0)) @@ (0 :> R(1000)) @@ (1 :> R(1000))

\* C10: in a FinTrack call, construction or update, the price build is reached only
\* with the holdings build of this call completed (the holdings table is the one of the
\* log), and the cash build only with the holdings and the price build of this call
\* completed; no builder has run before the holdings build starts.
C10_BuildOrder ==
    /\ pc # "idle" => call.kind \in {"init", "update"}
    /\ pc = "holdings" => call.done = {}
    /\ pc = "prices" =>
           /\ call.done = {"holdings"}
           /\ db.portfolio = build_holding_table(EmptyDb, files(env, log), CsvFile).db.portfolio
    /\ pc = "cash" =>
           /\ call.done = {"holdings", "prices"}
           /\ db.portfolio = build_holding_table(EmptyDb, files(env, log), CsvFile).db.portfolio
           /\ {"portfolio", "prices"} \subseteq db.tables
    /\ pc = "idle" => call = NoCall

\* C10 witness: an update about to start its cash build, after a row was appended to
\* the log the object was constructed from.
C10_Witness ==
    /\ pc = "cash" /\ call.kind = "update"
    /\ call.done = {"holdings", "prices"}
    /\ Len(log) = 2 /\ Len(db.portfolio.rows) = 2
    /\ cashRun.ran /\ Len(cashRun.done) = 1

\* The log has one of the defects the validator is there for: a required column is
\* missing, a cell is no date, an amount is not a positive integer, a kind is unknown,
\* or a price is not positive.
MalformedRow(r) ==
    \/ "Date" \in r.unparsed
    \/ "Amount" \in r.unparsed \/ r.half \/ r.Amount <= 0
    \/ r.Type \notin Types
    \/ "Price" \in r.unparsed \/ (r.Price # <<>> /\ r.Price[1] <= 0)
Malformed(e, df) ==
    \/ REQUIRED_COLUMNS \ e.columns # {}
    \/ \E i \in DOMAIN df : MalformedRow(df[i])

\* C11: when the holdings build of a FinTrack call runs on a malformed log, the call
\* ends with a ValidationError (wrapped by the class) and the three tables are as they
\* were before.
C11_MalformedLogValidationError ==
    [][pc = "holdings" /\ call.csv_file = CsvFile /\ Malformed(env, log)
       => /\ err' = <<"FinTrackError", "ValidationError">>
          /\ db' = db]_vars

\* C12: constructing FinTrack with a csv_file that does not exist raises
\* FileNotFoundError to the caller: the exception the caller receives, the outermost
\* one, is FileNotFoundError.
C12_MissingFileRaisesFileNotFound ==
    [][pc = "holdings" /\ call.kind = "init" /\ call.csv_file \notin env.files
       => err' # <<>> /\ Head(err') = "FileNotFoundError"]_vars

\* A string of exactly three uppercase letters, among the currency arguments of the
\* model.
ThreeUppercase(currency) == currency \in {"SEK", "USD"}

\* C13: a constructor call with an initial_cash that is no number or is negative, or
\* with a currency that is not three uppercase characters, raises ValidationError and
\* runs no builder (the store stays as it was and no call is under way); any other
\* call, initial_cash 0 included, gets past the validators.
C13_ArgumentsValidatedFirst ==
    [][\A initial_cash \in CashArguments(env), currency \in env.currency,
          csv_file \in env.csv_file :
           ConstructWith(initial_cash, currency, csv_file)
           => IF \/ initial_cash.type \notin {"int", "float"}
                 \/ initial_cash.value < 0
                 \/ ~ThreeUppercase(currency)
              THEN err' = <<"ValidationError">> /\ pc' = "idle" /\ db' = db
              ELSE err' = <<>> /\ pc' = "holdings"]_vars

\* The builder a FinTrack call runs after the given one.
NextStep(step) == IF step = "holdings" THEN "prices" ELSE IF step = "prices" THEN "cash" ELSE "idle"

PricedRows(df, ticker, day) ==
    {i \in DOMAIN df : df[i].Ticker = ticker /\ df[i].Date = day /\ df[i].Price # <<>>}
RECURSIVE SumOver(_, _, _)
SumOver(df, idx, weighted) ==
    IF idx = {} THEN 0
    ELSE LET i == CHOOSE j \in idx : TRUE
         IN  df[i].Amount * (IF weighted THEN df[i].Price[1] ELSE 1)
             + SumOver(df, idx \ {i}, weighted)
ExplicitPrice(e, df, ticker, day, base) ==
    LET idx == PricedRows(df, ticker, day)
        stated == RDiv(R(SumOver(df, idx, TRUE)), R(SumOver(df, idx, FALSE)))
    IN  IF e.ccy[ticker] = base THEN stated ELSE RMul(stated, R(e.fx[day]))

\* C15: when the price step of a FinTrack call has completed on a log without
\* future-dated rows, every instrument and day for which the log carries an explicit
\* price has that price stored, not a market close.
C15_ExplicitPriceStored ==
    [][/\ pc = "prices" /\ err' = <<>>
       /\ \A i \in DOMAIN log : log[i].Date <= today
       => \A t \in Tickers, d \in 1..today :
              PricedRows(log, t, d) # {}
              => /\ <<t, d>> \in DOMAIN db'.prices
                 /\ db'.prices[<<t, d>>] = ExplicitPrice(env, log, t, d, call.currency)]_vars

\* The instruments for which the feed has a close on every day up to the given one.
FeedComplete(e, now) == {t \in Tickers : \A d \in 1..now : e.close[t][d] # 0}

\* C16: when the price step of a FinTrack call has completed on a log without
\* future-dated rows, then for every instrument the feed has a close for on every
\* day, a price point is stored for every day up to today on which the holdings as of
\* that day are non-zero.
C16_PriceForEveryHeldDay ==
    [][/\ pc = "prices" /\ err' = <<>>
       /\ \A i \in DOMAIN log : log[i].Date <= today
       => \A t \in FeedComplete(env, today), d \in 1..today :
              SharesAsOf(db', t, d) # 0 => <<t, d>> \in DOMAIN db'.prices]_vars

\* C17: from any store the program can have reached, with no call under way, a run
\* of the three builders that completes followed by a second run on the same log, the
\* same day and the same feed leaves the holdings rows, the price points and the cash
\* entries as the first run left them, and the second cash build applies no event.
C17_RebuildIdempotent ==
    pc = "idle"
    => \A initial_cash \in env.initial_cash, currency \in env.currency :
           LET first == build_all(db, env, today, log, initial_cash, currency)
               second == build_all(first.db, env, today, log, initial_cash, currency)
               again == build_cash_table(first.db, env, today, log, initial_cash, currency)
           IN  first.raises = <<>>
               => /\ second.raises = <<>>
                  /\ second.db = first.db
                  /\ \A i \in DOMAIN again.run.done : ~again.run.done[i].processed

\* The builders have run a second time on a log of two rows that the first run had
\* replayed, the dividend of day 2 included: the cash build resumed from the latest
\* entry and found nothing to apply.
C17_Witness ==
    /\ pc = "idle" /\ err = <<>> /\ today = 2
    /\ Len(log) = 2
    /\ cashRun.ran /\ ~cashRun.is_initial_build /\ cashRun.done = <<>>
    /\ cashRun.last_processed_date = 2
    /\ {0, 1, 2} \subseteq DOMAIN db.cash
    /\ db = build_all(db, env, today, log, obj.initial_cash, obj.currency).db

\* C18: on a log of the header alone, in a file that exists and has the five columns,
\* no step of a FinTrack call raises (and, the log being empty, the tables it leaves
\* have no row).
C18_EmptyLogBuilds ==
    [][/\ pc # "idle" /\ log = <<>>
       /\ call.csv_file \in env.files /\ env.columns = REQUIRED_COLUMNS
       => /\ err' = <<>>
          /\ db'.portfolio.rows = <<>> /\ DOMAIN db'.prices = {} /\ DOMAIN db'.cash = {}]_vars

\* C19: when a build_cash_table run that goes through finds no stored cash entry
\* (the table missing, or present without rows), the ledger it leaves has the initial
\* balance one day before the earliest transaction date and nothing before that day,
\* and the run has replayed a transaction event for every row of that earliest date.
C19_SeedDayBeforeFirst ==
    [][BuildCashTable /\ cashRun'.ran /\ DOMAIN db.cash = {}
       => LET first == Min(LogDates(log))
          IN  /\ cashRun'.is_initial_build
              /\ first - 1 \in DOMAIN db'.cash
              /\ \E c \in env.initial_cash : db'.cash[first - 1] = R(c)
              /\ \A day \in DOMAIN db'.cash : day >= first - 1
              /\ get_cash_balance(db', first - 2) = None
              /\ \A i \in DOMAIN log :
                     log[i].Date = first
                     => \E k \in DOMAIN cashRun'.done :
                            /\ cashRun'.done[k].event.type = "transaction"
                            /\ cashRun'.done[k].event.date = first
                            /\ cashRun'.done[k].event.Ticker = log[i].Ticker
                            /\ cashRun'.done[k].event.Type = log[i].Type]_vars

\* What the four cells other than Price must be for a row to pass: a date, a ticker
\* that is not blank, Buy or Sell, and a positive whole amount.
CellsPass(r) ==
    /\ "Date" \notin r.unparsed
    /\ r.Ticker \notin {"", " "}
    /\ r.Type \in {"Buy", "Sell"}
    /\ "Amount" \notin r.unparsed /\ ~r.half /\ r.Amount > 0
PositivePrice(r) == "Price" \notin r.unparsed /\ r.Price # <<>> /\ r.Price[1] > 0
EmptyPrice(r) == "Price" \notin r.unparsed /\ r.Price = <<>>

\* What validate_dataframe must return for the file, given which rows are to pass:
\* (True, no error) when the five columns are there and every row passes, (False, some
\* errors) when they are there and a row fails, and (False, the one error about the
\* missing columns) when a column is absent.
FrameVerdict(e, df, passing) ==
    LET res == validate_dataframe(files(e, df)[CsvFile])
    IN  IF e.columns = REQUIRED_COLUMNS
        THEN IF \A i \in DOMAIN df : i \in passing
             THEN res = <<TRUE, {}>>
             ELSE ~res[1] /\ res[2] # {} /\ \A m \in res[2] : m[2] # "Missing required columns"
        ELSE res = <<FALSE, {<<1, "Missing required columns">>}>>

\* C20 as stated: validate_row returns no error exactly for the rows whose Date is a
\* date, whose Ticker is not blank, whose Type is Buy or Sell, whose Amount is a
\* positive integer and whose Price is a positive number, and validate_dataframe
\* answers accordingly.
C20_ValidatorAsStated ==
    /\ \A i \in DOMAIN log :
           validate_row(log[i]) = {} <=> (CellsPass(log[i]) /\ PositivePrice(log[i]))
    /\ FrameVerdict(env, log, {i \in DOMAIN log : CellsPass(log[i]) /\ PositivePrice(log[i])})

\* C20, amended: validate_row returns no error exactly for the rows whose Date is a
\* date, whose Ticker is not blank, whose Type is Buy or Sell, whose Amount is a
\* positive integer and whose Price cell is empty or a positive number;
\* validate_dataframe returns (True, no error) exactly when the five columns are
\* present and every row passes, and (False, the one error about missing columns),
\* whatever the rows, when a column is absent.
C20_ValidatorEmptyPriceAllowed ==
    /\ \A i \in DOMAIN log :
           validate_row(log[i]) = {}
           <=> (CellsPass(log[i]) /\ (PositivePrice(log[i]) \/ EmptyPrice(log[i])))
    /\ FrameVerdict(env, log,
                    {i \in DOMAIN log :
                        CellsPass(log[i]) /\ (PositivePrice(log[i]) \/ EmptyPrice(log[i]))})

\* The holdings build of a call has just rejected a file with the five columns whose
\* first row has an empty Price cell and passes, and whose second row has a price that
\* is not positive.
C20_Witness ==
    /\ pc = "idle" /\ err = <<"FinTrackError", "ValidationError">>
    /\ env.columns = REQUIRED_COLUMNS
    /\ Len(log) = 2
    /\ log[1].Price = <<>> /\ validate_row(log[1]) = {}
    /\ log[2].Price # <<>> /\ log[2].Price[1] <= 0 /\ validate_row(log[2]) # {}

\* The instruments held as of from_date or traded in [from_date, to_date].
HeldOrTraded(d, df, from_date, to_date) ==
    {t \in Tickers : SharesAsOf(d, t, from_date) # 0}
    \cup {df[i].Ticker : i \in {j \in DOMAIN df : from_date <= df[j].Date /\ df[j].Date <= to_date}}

\* Signed shares times price as of the day; nothing when no price resolves.
SignedValue(d, ticker, day) ==
    IF get_price(d, ticker, day) = None THEN RZero
    ELSE RMul(R(SharesAsOf(d, ticker, day)), get_price(d, ticker, day)[1])

\* The period transactions of a ticker, and the sum of amount * price as of the
\* transaction date over those of the given kinds, read from the log row by row; a
\* transaction no price resolves for adds nothing.
PeriodRows(df, ticker, from_date, to_date) ==
    {i \in DOMAIN df : df[i].Ticker = ticker /\ from_date <= df[i].Date /\ df[i].Date <= to_date}

RECURSIVE PeriodFlow(_, _, _, _)
PeriodFlow(d, df, rows, kinds) ==
    IF rows = {} THEN RZero
    ELSE LET i == CHOOSE j \in rows : TRUE
             worth == IF df[i].Type \in kinds /\ get_price(d, df[i].Ticker, df[i].Date) # None
                      THEN RowValue(d, df[i]) ELSE RZero
         IN  RAdd(worth, PeriodFlow(d, df, rows \ {i}, kinds))

\* The periods get_stock_returns is asked for: from the day before the first
\* transaction to the day after the last day, the first day, the second day, both, and
\* a period of no day.
ReturnRanges == {<<0, env.lastDay + 1>>, <<1, 1>>, <<2, 2>>, <<1, 2>>, <<2, 1>>}

\* C21: on every store the builders leave with a holdings table, for every period and
\* every instrument held at from_date or traded in the period, with start_value and
\* end_value the signed shares times price as of from_date and to_date, outflows the
\* sum of amount * price over the period's Buy and Cover rows, inflows the sum over its
\* Sell and Short rows and net_investment = outflows - inflows: when end_value is 0
\* and start_value is not 0 or the period has a transaction, get_stock_returns reports
\* (end_value - start_value - net_investment) / (|start_value| + outflows), and
\* otherwise (end_value - start_value - net_investment) / |start_value +
\* net_investment|, in both cases provided the divisor is not 0.
C21_ReturnFormula ==
    "portfolio" \in db.tables =>
        \A range \in ReturnRanges :
            LET returns == get_stock_returns(db, log, range[1], range[2])
            IN  \A t \in HeldOrTraded(db, log, range[1], range[2]) :
                    LET start_value == SignedValue(db, t, range[1])
                        end_value == SignedValue(db, t, range[2])
                        period == PeriodRows(log, t, range[1], range[2])
                        outflows == PeriodFlow(db, log, period, {"Buy", "Cover"})
                        inflows == PeriodFlow(db, log, period, {"Sell", "Short"})
                        net_investment == RSub(outflows, inflows)
                        gain == RSub(RSub(end_value, start_value), net_investment)
                        closed == end_value = RZero /\ (start_value # RZero \/ period # {})
                        divisor == IF closed THEN RAdd(RAbs(start_value), outflows)
                                   ELSE RAbs(RAdd(start_value, net_investment))
                    IN  divisor # RZero =>
                            t \in DOMAIN returns /\ returns[t] = RDiv(gain, divisor)

\* C21 witness: X bought at 2 on day 1 and sold at 2 on day 2, built into the ledgers:
\* over [1, 2] the position is closed (start_value 2, outflows 2, inflows 2, return
\* -2 / 4), and over [1, 1] it is open (capital at risk 4, return -2 / 4).
C21_Witness ==
    /\ log = <<Row(1, "X", "Buy", 1, <<2>>), Row(2, "X", "Sell", 1, <<2>>)>>
    /\ SharesAsOf(db, "X", 1) = 1 /\ SharesAsOf(db, "X", 2) = 0
    /\ get_price(db, "X", 1) = Some(R(2)) /\ get_price(db, "X", 2) = Some(R(2))
    /\ get_stock_returns(db, log, 1, 2) = [t \in {"X"} |-> <<-1, 2>>]
    /\ get_stock_returns(db, log, 1, 1) = [t \in {"X"} |-> <<-1, 2>>]

\* The divisor the return formula names for an instrument and a period: |start_value|
\* + outflows when end_value is 0 and start_value is not 0 or the period has a
\* transaction (closed), |start_value + net_investment| otherwise (open).
ReturnDivisor(d, df, t, from_date, to_date) ==
    LET start_value == SignedValue(d, t, from_date)
        end_value == SignedValue(d, t, to_date)
        period == PeriodRows(df, t, from_date, to_date)
        outflows == PeriodFlow(d, df, period, {"Buy", "Cover"})
        inflows == PeriodFlow(d, df, period, {"Sell", "Short"})
        closed == end_value = RZero /\ (start_value # RZero \/ period # {})
    IN  [closed |-> closed,
         value |-> IF closed THEN RAdd(RAbs(start_value), outflows)
                   ELSE RAbs(RAdd(start_value, RSub(outflows, inflows)))]

\* C22: on every store the builders leave with a holdings table, for every period and
\* every instrument of the period whose lookups may fail, get_stock_returns reports no
\* return for an instrument whose divisor is 0 (closed with |start_value| + outflows =
\* 0, or open with capital_at_risk = 0) nor for the failing one, every reported return
\* is a quotient with a non-zero divisor, and every other instrument has the return it
\* has when nothing fails.
C22_ZeroDivisorOmitted ==
    "portfolio" \in db.tables =>
        \A range \in ReturnRanges :
            LET clean == get_stock_returns_failing(db, log, range[1], range[2], {})
                traded == HeldOrTraded(db, log, range[1], range[2])
            IN  /\ \A t \in DOMAIN clean : clean[t][2] > 0
                /\ \A t \in traded :
                       t \notin DOMAIN clean
                       \/ ReturnDivisor(db, log, t, range[1], range[2]).value # RZero
                /\ \A failing \in {{t} : t \in traded} :
                       get_stock_returns_failing(db, log, range[1], range[2], failing)
                           = [t \in (DOMAIN clean) \ failing |-> clean[t]]

\* C22 witness: one X bought at 2 and two Y bought without a price on day 1, no price
\* resolving for Y: over [1, 1] Y has start_value, end_value and outflows 0, its divisor
\* is 0 and it has no return, X has its return, and X keeps it when the lookups of Y
\* fail.
C22_Witness ==
    /\ log = <<Row(1, "X", "Buy", 1, <<2>>), Row(1, "Y", "Buy", 2, <<>>)>>
    /\ SharesAsOf(db, "X", 1) = 1 /\ SharesAsOf(db, "Y", 1) = 2
    /\ get_price(db, "X", 1) = Some(R(2)) /\ get_price(db, "Y", 1) = None
    /\ ReturnDivisor(db, log, "Y", 1, 1).value = RZero
    /\ DOMAIN get_stock_returns(db, log, 1, 1) = {"X"}
    /\ get_stock_returns_failing(db, log, 1, 1, {}) = get_stock_returns(db, log, 1, 1)
    /\ get_stock_returns_failing(db, log, 1, 1, {"Y"}) = get_stock_returns(db, log, 1, 1)
    /\ get_stock_returns_failing(db, log, 1, 1, {"X"}) = <<>>

\* A price step that did not return early records the specified price of (t, D): the
\* log carries one, the ticker is a column of the holdings table, and the price is
\* stored when the step has completed.
RecordsSpecified(t, D) ==
    /\ pc = "prices" /\ err' = <<>>
    /\ price_start_date(db) <= today
    /\ t \in db.portfolio.cols
    /\ PricedRows(log, t, D) # {}
    /\ <<t, D>> \in DOMAIN db'.prices
    /\ db'.prices[<<t, D>>] = ExplicitPrice(env, log, t, D, call.currency)

\* C23: when the price step of a FinTrack call records a specified price for (t, D)
\* and the log specifies none for (t, D + 1): if no price point existed for (t, D + 1)
\* before the step, one exists after it and carries the specified price of D; if one
\* existed, it is what it was.
C23_ForwardFillOneDay ==
    [][\A t \in Tickers, D \in 1..today :
           (RecordsSpecified(t, D) /\ PricedRows(log, t, D + 1) = {})
           => IF <<t, D + 1>> \in DOMAIN db.prices
              THEN db'.prices[<<t, D + 1>>] = db.prices[<<t, D + 1>>]
              ELSE /\ <<t, D + 1>> \in DOMAIN db'.prices
                   /\ db'.prices[<<t, D + 1>>] = db'.prices[<<t, D>>]]_vars

\* The merged ownership periods the price step downloads for a ticker.
DownloadPeriods(t) ==
    merged_periods(ownership_periods(db.portfolio.rows, t, price_start_date(db), today))

\* The feed answers the download of a period: it names the currency of the ticker,
\* has a row for some day of the period, and, for a ticker in another currency than
\* the portfolio's, a rate for some day of the period.
FeedAnswers(e, now, t, base, period) ==
    /\ e.ccy[t] # ""
    /\ \E d \in period[1]..period[2] : d <= now /\ e.close[t][d] # 0
    /\ e.ccy[t] = base \/ \E d \in period[1]..period[2] : d <= now /\ e.fx[d] # 0

\* The days for which a price step has to add a price point for a ticker: the days
\* without a point that lie in a period the feed answers and have a close that is a
\* number.
DaysToAdd(t) ==
    {d \in 0..today :
        /\ <<t, d>> \notin DOMAIN db.prices
        /\ env.close[t][d] > 0
        /\ \E k \in DOMAIN DownloadPeriods(t) :
               /\ DownloadPeriods(t)[k][1] <= d /\ d <= DownloadPeriods(t)[k][2]
               /\ FeedAnswers(env, today, t, call.currency, DownloadPeriods(t)[k])}

\* C24: on a log that states no price, whatever the feed leaves out (the closes of a
\* period, the currency of an instrument, the exchange rates, a close that is NaN),
\* the price step of a FinTrack call completes without raising, keeps every price
\* point it found, and adds exactly the points of the periods the feed answers: one
\* for every day of such a period that had none and has a close that is a number,
\* carrying that close in the portfolio currency; a period the feed does not answer
\* and a NaN close add nothing.
C24_FeedGapsSkipped ==
    [][(pc = "prices" /\ \A i \in DOMAIN log : log[i].Price = <<>>)
       => /\ err' = <<>> /\ pc' = "cash"
          /\ "prices" \in db'.tables
          /\ DOMAIN db'.prices
                 = DOMAIN db.prices
                   \cup {k \in db.portfolio.cols \X (0..today) : k[2] \in DaysToAdd(k[1])}
          /\ \A k \in DOMAIN db.prices : db'.prices[k] = db.prices[k]
          /\ \A k \in DOMAIN db'.prices \ DOMAIN db.prices :
                 db'.prices[k] = IF env.ccy[k[1]] = call.currency
                                 THEN R(env.close[k[1]][k[2]])
                                 ELSE RMul(R(env.close[k[1]][k[2]]), R(env.fx[k[2]]))]_vars

\* C24 witness: X owned over [1, 2] and from day 4 on, the feed having no close of X
\* before day 4: the price step has skipped the first period and stored the closes
\* of the second.
C24_Witness ==
    /\ pc = "cash"
    /\ Len(log) = 3
    /\ env.close["X"][1] = 0 /\ env.close["X"][4] = 1
    /\ <<"X", 1>> \notin DOMAIN db.prices /\ <<"X", 2>> \notin DOMAIN db.prices
    /\ <<"X", 4>> \in DOMAIN db.prices /\ db.prices[<<"X", 4>>] = R(1)

\* The rows of the log a cash run has to replay (dated after the date it resumes
\* from), those of them without a price as of their date, and the signed cash effect
\* of those with one, summed row by row.
NewRows(df, last) == {i \in DOMAIN df : df[i].Date > last}
Unpriced(d, df, rows) == {i \in rows : get_price(d, df[i].Ticker, df[i].Date) = None}

RECURSIVE SignedCash(_, _, _)
SignedCash(d, df, rows) ==
    IF rows = {} THEN RZero
    ELSE LET i == CHOOSE j \in rows : TRUE
             worth == IF df[i].Type \in {"Sell", "Short"} THEN RowValue(d, df[i])
                      ELSE RNeg(RowValue(d, df[i]))
         IN  RAdd(worth, SignedCash(d, df, rows \ {i}))

\* The dividends a run credited: their dates and their sum.
DividendDates(run) ==
    {run.done[i].event.date : i \in {j \in DOMAIN run.done :
        run.done[j].event.type = "dividend" /\ run.done[j].processed}}

RECURSIVE DividendSum(_, _)
DividendSum(run, i) ==
    IF i = 0 THEN RZero
    ELSE RAdd(IF run.done[i].event.type = "dividend" /\ run.done[i].processed
              THEN run.done[i].change ELSE RZero,
              DividendSum(run, i - 1))

\* C25: in every run of build_cash_table that gets to its events, the transactions to
\* replay that have no price as of their date raise no error and leave the balance as
\* it is: the run ends on the balance it started from plus the signed effects of the
\* priced transactions and the dividends; no cash entry is written for them: the dates
\* of the entries after the run are those before it (the seed included), those of the
\* priced transactions and those of the dividends, so that every priced transaction,
\* also one that comes after an unpriced one, has an entry on its date; and the latest
\* entry holds the balance the run ended on.
C25_UnpricedSkipped ==
    [][BuildCashTable /\ cashRun'.ran =>
        LET run == cashRun'
            rows == NewRows(log, run.last_processed_date)
            unpriced == Unpriced(db, log, rows)
            before == IF run.is_initial_build THEN {run.last_processed_date} ELSE DOMAIN db.cash
        IN  /\ err' = <<>>
            /\ run.current_balance
                   = RAdd(RAdd(run.previous_balance, SignedCash(db, log, rows \ unpriced)),
                          DividendSum(run, Len(run.done)))
            /\ DOMAIN db'.cash
                   = before \cup {log[i].Date : i \in rows \ unpriced} \cup DividendDates(run)
            /\ FinalBalance(db') = run.current_balance]_vars

\* C25 witness: two Y bought on day 1 without any price for Y and one X sold on day 2
\* at 2: the run skipped the purchase, wrote no entry for day 1, and went on to credit
\* the sale on day 2.
C25_Witness ==
    /\ cashRun.ran /\ cashRun.is_initial_build
    /\ log = <<Row(1, "Y", "Buy", 2, <<>>), Row(2, "X", "Sell", 1, <<2>>)>>
    /\ get_price(db, "Y", 1) = None
    /\ db.cash = (0 :> R(10)) @@ (2 :> R(12))

\* The sum of the dividends a run credited on the dates up to D.
RECURSIVE DividendSumTo(_, _, _)
DividendSumTo(run, i, D) ==
    IF i = 0 THEN RZero
    ELSE RAdd(IF /\ run.done[i].event.type = "dividend" /\ run.done[i].processed
                 /\ run.done[i].event.date <= D
              THEN run.done[i].change ELSE RZero,
              DividendSumTo(run, i - 1, D))

\* C26: after every initial build of the cash table, the table has one entry per
\* date (it is keyed by the date), an entry on every date of a processed event (a
\* priced transaction or a credited dividend), and the entry of every date D holds the
\* initial balance plus the signed effects of the priced transactions and the
\* dividends dated up to D.
C26_EntryPerDateRunningBalance ==
    [][BuildCashTable /\ cashRun'.ran /\ cashRun'.is_initial_build =>
        LET run == cashRun'
            rows == NewRows(log, run.last_processed_date)
            priced == rows \ Unpriced(db, log, rows)
        IN  /\ {log[i].Date : i \in priced} \cup DividendDates(run) \subseteq DOMAIN db'.cash
            /\ \E c \in env.initial_cash :
                   \A D \in DOMAIN db'.cash :
                       db'.cash[D]
                           = RAdd(RAdd(R(c), SignedCash(db, log, {i \in priced : log[i].Date <= D})),
                                  DividendSumTo(run, Len(run.done), D))]_vars

\* C26 witness: an initial build that replayed a Buy of X at 2 on day 1 and, on day 2,
\* a Sell at 2 and then a dividend of 1: one entry for day 2, holding 10 - 2 + 2 + 1.
C26_Witness ==
    /\ cashRun.ran /\ cashRun.is_initial_build
    /\ Len(cashRun.done) = 3
    /\ cashRun.done[2].event.date = 2 /\ cashRun.done[2].processed
    /\ cashRun.done[3].event.date = 2 /\ cashRun.done[3].processed
    /\ cashRun.done[3].event.type = "dividend"
    /\ db.cash = (0 :> R(10)) @@ (1 :> R(8)) @@ (2 :> R(11))

\* The days on which the snapshots of the portfolio table show a holding of t, each
\* snapshot lasting to the day the next one starts (the last one to today), from the
\* start day of the next price build on.
OwnedDays(t) ==
    LET rows == db.portfolio.rows
        next_date(i) == IF i < Len(rows) THEN rows[i + 1].Date ELSE today
    IN  {d \in price_start_date(db)..today :
            \E i \in DOMAIN rows :
                rows[i].H[t] # 0 /\ rows[i].Date <= d /\ d <= next_date(i)}

\* C27: whenever a price build has periods to compute (a portfolio table with rows,
\* a start day not after today), the merged periods of every instrument are in
\* ascending order, consecutive ones lie more than one day apart, and together they
\* cover exactly the days of the unmerged ownership periods.
C27_MergedPeriodsCoverOwnedDays ==
    ("portfolio" \in db.tables /\ db.portfolio.rows # <<>> /\ price_start_date(db) <= today)
    => \A t \in db.portfolio.cols :
           LET m == DownloadPeriods(t)
           IN  /\ \A k \in DOMAIN m : m[k][1] <= m[k][2]
               /\ \A k \in 1..(Len(m) - 1) : m[k + 1][1] > m[k][2] + 1
               /\ UNION {m[k][1]..m[k][2] : k \in DOMAIN m} = OwnedDays(t)

\* C27 witness: before the first price build on day 4, Y held on the snapshots of days
\* 1, 2 and 4 (three periods merged into [1, 4]) and X held on day 1, sold on day 2 and
\* bought again on day 4 (the periods [1, 2] and [4, 4], kept apart).
C27_Witness ==
    /\ pc = "prices" /\ today = 4
    /\ "portfolio" \in db.tables /\ db.portfolio.cols = {"X", "Y"}
    /\ DOMAIN db.prices = {}
    /\ Len(ownership_periods(db.portfolio.rows, "Y", 1, today)) = 3
    /\ DownloadPeriods("Y") = << <<1, 4>> >>
    /\ DownloadPeriods("X") = << <<1, 2>>, <<4, 4>> >>

\* A build_cash_table step that finds a cash table with entries: an incremental run.
IncrementalCashRun ==
    /\ BuildCashTable
    /\ "cash" \in db.tables /\ DOMAIN db.cash # {}
    /\ "portfolio" \in db.tables

\* Nothing new since the latest cash date: no log row dated after it, and no dividend
\* of any instrument after it.
NothingNewSince(last) ==
    /\ \A i \in DOMAIN log : log[i].Date <= last
    /\ \A t \in Tickers, d \in (last + 1)..today : env.div[t][d] = 0

\* C28: an incremental run of build_cash_table leaves every entry that was stored
\* before it in place with its balance, dates every entry it adds after the latest
\* date stored before it, and leaves the table as it was when nothing is new.
C28_IncrementalRunWritesAfterLatest ==
    [][IncrementalCashRun =>
        LET last == Max(DOMAIN db.cash)
        IN  /\ \A D \in DOMAIN db.cash : D \in DOMAIN db'.cash /\ db'.cash[D] = db.cash[D]
            /\ \A D \in DOMAIN db'.cash \ DOMAIN db.cash : D > last
            /\ NothingNewSince(last) => db'.cash = db.cash]_vars

\* C28 witness: an incremental run resumed from the entry of day 1 (balance 8) and
\* replayed the Sell of day 2: the entries of days 0 and 1 are what the first run
\* wrote, and the one entry added is dated day 2.
C28_Witness ==
    /\ cashRun.ran /\ ~cashRun.is_initial_build
    /\ cashRun.last_processed_date = 1 /\ cashRun.previous_balance = R(8)
    /\ Len(log) = 2 /\ log[2].Date = 2
    /\ Len(cashRun.done) >= 1 /\ cashRun.done[1].processed
    /\ db.cash = (0 :> R(10)) @@ (1 :> R(8)) @@ (2 :> R(10))

\* The feed has a constant price in the portfolio currency for every instrument, on
\* every day, and no dividend.
FlatFeed ==
    \A t \in Tickers :
        /\ env.ccy[t] # ""
        /\ \A d \in DOMAIN env.close[t] :
               /\ env.close[t][d] > 0 /\ env.close[t][d] = env.close[t][0]
               /\ env.fx[d] > 0 /\ env.fx[d] = env.fx[0]
               /\ env.div[t][d] = 0

\* The price table resolves, for every instrument of the log and every day from the
\* first transaction date to today, to one and the same price.
StoreResolvesFlat ==
    /\ "prices" \in db.tables
    /\ \A i \in DOMAIN log, d \in Min({log[j].Date : j \in DOMAIN log})..today :
           /\ get_price(db, log[i].Ticker, d) # None
           /\ get_price(db, log[i].Ticker, d) = get_price(db, log[i].Ticker, today)

\* The log is in date order, has no row dated in the future, and the portfolio table
\* is the one built from it: no appended row is waiting for update_portfolio.
LogInOrderAndBuilt ==
    /\ \A i \in DOMAIN log, j \in DOMAIN log : i < j => log[i].Date <= log[j].Date
    /\ \A i \in DOMAIN log : log[i].Date <= today
    /\ build_holding_table(db, files(env, log), obj.csv_file).raises = <<>>
    /\ db.portfolio = build_holding_table(db, files(env, log), obj.csv_file).db.portfolio

\* C29: with a feed of constant prices and no dividends, a price table that resolves
\* every instrument of the log to one price from the first transaction date on, and a
\* log in date order that the ledgers were built from, the value of the portfolio
\* (shares times price, plus cash) is the initial cash on every day from the seed date
\* to today, whatever appends and FinTrack calls came before.
C29_TradingValueNeutral ==
    (/\ pc = "idle" /\ obj.exists /\ err = <<>>
     /\ FlatFeed /\ StoreResolvesFlat /\ LogInOrderAndBuilt
     /\ "cash" \in db.tables /\ DOMAIN db.cash # {})
    => \A d \in Min(DOMAIN db.cash)..today : day_value(db, d) = R(obj.initial_cash)

\* The processed events of a cash run, by their position in the run, and those of
\* them that are transactions.
Applied(run) == {k \in DOMAIN run.done : run.done[k].processed}
Transactions(run) == {k \in DOMAIN run.done : run.done[k].event.type = "transaction"}

\* C30: no step removes a stored cash date; and a build_cash_table run applies only
\* events dated after every cash date stored before it (dividends therefore from the
\* following day on), takes each row of the log dated after the date it resumes from
\* once and each dividend of an instrument and a day once, and leaves a cash entry on
\* the date of every event it applied.  An applied event is thus dated on or before
\* the latest stored cash date from then on, and no later run applies it again.
C30_NoEventAppliedTwice ==
    [][/\ DOMAIN db.cash \subseteq DOMAIN db'.cash
       /\ (BuildCashTable /\ cashRun'.ran) =>
              LET run == cashRun'
                  resumed == IF DOMAIN db.cash # {} THEN Max(DOMAIN db.cash)
                             ELSE Min(DOMAIN db'.cash)
              IN  /\ \A k \in Applied(run) :
                         /\ \A D \in DOMAIN db.cash : run.done[k].event.date > D
                         /\ run.done[k].event.date > resumed
                         /\ run.done[k].event.date \in DOMAIN db'.cash
                  /\ Cardinality(Transactions(run)) = Cardinality(NewRows(log, resumed))
                  /\ \A k \in DOMAIN run.done, l \in DOMAIN run.done :
                         (/\ k # l
                          /\ run.done[k].event.type = "dividend"
                          /\ run.done[l].event.type = "dividend")
                         => <<run.done[k].event.Ticker, run.done[k].event.date>>
                                # <<run.done[l].event.Ticker, run.done[l].event.date>>]_vars

\* C30 witness: the Buy of day 1 at 2 was applied by an earlier run (entry 8 on day 1);
\* a later run over the log of both rows has the Sell of day 2 as its only event and
\* brings the balance to 8 + 2.
C30_Witness ==
    /\ cashRun.ran /\ ~cashRun.is_initial_build
    /\ Len(log) = 2 /\ log[1].Date = 1 /\ log[1].Type = "Buy" /\ log[1].Ticker = "X"
    /\ get_price(db, "X", 1) = <<R(2)>>
    /\ Len(cashRun.done) = 1
    /\ cashRun.done[1].event.date = 2 /\ cashRun.done[1].event.Type = "Sell"
    /\ cashRun.done[1].processed
    /\ 1 \in DOMAIN db.cash /\ db.cash[1] = R(8)
    /\ FinalBalance(db) = R(10) /\ Latest(DOMAIN db.cash) = 2

====
